---- MODULE Spec2Model ----
(***************************************************************************)
(* Capture-to-transmission pipeline of gemini-playground:                  *)
(*   VideoRecorder  (src/src/static/js/video/video-recorder.js)            *)
(*   VideoManager   (src/src/static/js/video/video-manager.js)             *)
(*   ScreenRecorder (src/unnamed/part_000, lines 824-1071)                 *)
(*                                                                         *)
(* JavaScript runs one task at a time: every action below is one task (a   *)
(* public call with everything it does synchronously, a timer callback, a  *)
(* settled promise with the continuations that run after it, a DOM event). *)
(* An async function suspends only at its awaits, so VideoManager.start is *)
(* three tasks: the call (up to getUserMedia), the acquisition settling    *)
(* (up to play()), and play() settling.                                    *)
(***************************************************************************)
EXTENDS Integers, Sequences, FiniteSets, TLC

\* ------------------------------------------------------------------ bounds
\* Capturer objects (VideoRecorder / ScreenRecorder) constructed in one run.
MaxRec == 2
\* VideoManager objects that exist in one run.
MaxVM == 1
\* Frames admitted to processFrame whose image decode is still pending.
MaxDecoding == 1
\* Thumbnail images (updateFramePreview) whose decode is still pending.
MaxDrawing == 1
\* Frames one session forwards before the model stops admitting more.
MaxFrames == 2
\* The largest pixel count of the frames detectMotion is applied to alone.
MaxPixels == 3

\* ------------------------------------------------------- program constants
MOTION_THRESHOLD == 10
FRAME_INTERVAL == 200
FORCE_FRAME_INTERVAL == 10
\* validateFrame: minimum length of an encoded payload.
MinFrameLength == 1024
\* detectMotion: const skipPixels = 2.
skipPixels == 2
\* startFrameCapture: const frameInterval = 1000 / this.options.fps.
MsPerSecond == 1000

RecIds == 1..MaxRec
VMs == 1..MaxVM
NoRec == 0
NoStream == 0
NoSink == 0
NoCadence == 0
NoPixels == 0

\* The two callbacks a caller may hand to start() as the outbound sink.
Sinks == {1, 2}
\* Everything a recorder's sampling tick can find in the preview element.
Scenes == {1, 2, 3}
FacingModes == {"user", "environment"}

\* ------------------------------------------------------------ frame payloads
\* An encoded payload (the base64 text after the comma of the data URL): its
\* length, whether every character is in [A-Za-z0-9+/=], and the picture it
\* decodes to.
Payload(len, alpha, px) == [len |-> len, alpha |-> alpha, px |-> px]

\* The payloads a tick can produce: empty, one character short, with a
\* character outside the alphabet, and well-formed ones of each scene.
PayloadsOf(scenes) ==
    {Payload(0, TRUE, NoPixels)}
      \cup {Payload(MinFrameLength - 1, TRUE, px) : px \in scenes}
      \cup {Payload(MinFrameLength, FALSE, px) : px \in scenes}
      \cup {Payload(MinFrameLength, TRUE, px) : px \in scenes}

\* /^[A-Za-z0-9+/=]+$/.test(base64Data)
MatchesBase64(p) == p.len >= 1 /\ p.alpha

\* A validateFrame without its length test: the fault C4_InvalidNeverForwarded
\* has to detect.
validateFrameAnyLength(p) ==
    IF p.len = 0 \/ ~MatchesBase64(p) THEN FALSE ELSE TRUE

\* VideoRecorder.validateFrame
validateFrame(p) ==
    IF p.len = 0 \/ ~MatchesBase64(p) THEN FALSE
    ELSE IF p.len < MinFrameLength THEN FALSE
    ELSE TRUE

\* A validateFrame that also rejects a payload of exactly the minimum length:
\* the fault C15_ScreenFrameAlwaysForwarded has to detect.
screenValidateFrameOffByOne(p) ==
    IF p.len = 0 \/ ~MatchesBase64(p) THEN FALSE
    ELSE IF p.len <= MinFrameLength THEN FALSE
    ELSE TRUE

\* ScreenRecorder.validateFrame
screenValidateFrame(p) ==
    IF p.len = 0 \/ ~MatchesBase64(p) THEN FALSE
    ELSE IF p.len < MinFrameLength THEN FALSE
    ELSE TRUE

\* --------------------------------------------------------- motion detection
\* The decoded RGBA buffer of a scene: four pixels, all channels equal.
\* Scene 1 is dark, scene 2 differs from it slightly, scene 3 is bright.
Level(px) == CASE px = 1 -> 0 [] px = 2 -> 4 [] OTHER -> 200
Pixels(px) == [i \in 1..16 |-> IF i % 4 = 0 THEN 255 ELSE Level(px)]

Abs(x) == IF x < 0 THEN -x ELSE x

RECURSIVE ChannelDiffSum(_, _, _)
\* The loop of detectMotion: for (i = 0; i < prevFrame.length; i += 4 * skipPixels),
\* summing rDiff + gDiff + bDiff (i is the 0-based index of the source).
ChannelDiffSum(prevFrame, currentFrame, i) ==
    IF i >= Len(prevFrame) THEN 0
    ELSE Abs(prevFrame[i + 1] - currentFrame[i + 1])
           + Abs(prevFrame[i + 2] - currentFrame[i + 2])
           + Abs(prevFrame[i + 3] - currentFrame[i + 3])
           + ChannelDiffSum(prevFrame, currentFrame, i + 4 * skipPixels)

\* VideoManager.detectMotion, as the exact fraction num / den:
\*   diff = sum / 3;  pixelsToCheck = length / 4;
\*   return diff / (pixelsToCheck / skipPixels)
detectMotion(prevFrame, currentFrame) ==
    [num |-> ChannelDiffSum(prevFrame, currentFrame, 0) * 4 * skipPixels,
     den |-> 3 * Len(prevFrame)]

\* motionScore < this.MOTION_THRESHOLD
BelowThreshold(score) == score.num < MOTION_THRESHOLD * score.den

\* ------------------------------------------------------------------- state
VARIABLES
    role,       \* the device role this run exercises: "camera" or "screen"
    rec,        \* rec[r]: the fields of capturer object r
    call,       \* call[r]: the start() invocation that was made on capturer r
    track,      \* track[r]: the device track of the stream capturer r acquired
    preview,    \* the <video> element of the role (preview / screen-preview)
    device,     \* device[r]: the resolution the track of r's stream has now
    vm,         \* vm[v]: the fields of VideoManager v
    decoding,   \* processFrame images whose onload has not fired yet
    drawing,    \* updateFramePreview images whose onload has not fired yet
    event,      \* what the task that just ran did (history, for the properties)
    history,    \* what callers asked for earlier (history, for the properties)
    motion,     \* a pair of frames handed to detectMotion, and what it returned
    app         \* main.js: isVideoActive and videoManager (0 for null)

vars ==
    <<role, rec, call, track, preview, device, vm, decoding, drawing, event,
      history, motion, app>>

\* The whole state as one value, so that a method is a function on states
\* and a method that calls another is a composition.
St ==
    [rec |-> rec, call |-> call, track |-> track, preview |-> preview,
     device |-> device, app |-> app, vm |-> vm, decoding |-> decoding, drawing |-> drawing, event |-> event]

Become(s) ==
    /\ rec' = s.rec
    /\ call' = s.call
    /\ track' = s.track
    /\ preview' = s.preview
    /\ device' = s.device
    /\ app' = s.app
    /\ vm' = s.vm
    /\ decoding' = s.decoding
    /\ drawing' = s.drawing
    /\ event' = s.event
    /\ UNCHANGED <<role, motion>>

\* A task that changes only the program's state.
Run(s) == Become(s) /\ UNCHANGED history

\* A task the history records something of.
RunNoting(s, h) == Become(s) /\ history' = h

\* A capturer slot no constructor has run for yet.
Unconstructed ==
    [kind |-> "none", stream |-> NoStream, previewElement |-> FALSE,
     isRecording |-> FALSE, onVideoData |-> FALSE, captureInterval |-> FALSE,
     fps |-> NoCadence, actualWidth |-> 0, actualHeight |-> 0,
     frameCanvas |-> [width |-> 0, height |-> 0]]

\* The resolution VideoRecorder asks for (options.width, options.height).
RequestedWidth == 640
RequestedHeight == 480
\* A canvas document.createElement makes is 300 x 150 until it is resized.
NewCanvas == [width |-> 300, height |-> 150]

\* VideoRecorder constructor: { fps: options.fps || 1, ..., ...options }, where
\* the spread of options overrides the default again.
NewVideoRecorder(fps) ==
    [kind |-> "camera", stream |-> NoStream, previewElement |-> FALSE,
     isRecording |-> FALSE, onVideoData |-> FALSE, captureInterval |-> FALSE,
     fps |-> fps, actualWidth |-> RequestedWidth,
     actualHeight |-> RequestedHeight, frameCanvas |-> NewCanvas]

\* ScreenRecorder constructor: fps 2 unless options say otherwise.
ScreenDefaultFps == 2
NewScreenRecorder ==
    [kind |-> "screen", stream |-> NoStream, previewElement |-> FALSE,
     isRecording |-> FALSE, onVideoData |-> FALSE, captureInterval |-> FALSE,
     fps |-> ScreenDefaultFps, actualWidth |-> 0, actualHeight |-> 0,
     frameCanvas |-> NewCanvas]

NoCall ==
    [pc |-> "none", via |-> "none", vm |-> 0, facingMode |-> "user",
     onFrame |-> NoSink]

\* VideoManager constructor.  lastFrameTime is kept as `elapsed`, the value of
\* Date.now() - this.lastFrameTime capped at FRAME_INTERVAL, the only number the
\* code ever compares it with; lastFrameTime = 0 makes it start at the cap.
NewVideoManager ==
    [constructed |-> TRUE, videoRecorder |-> NoRec, isActive |-> FALSE,
     facingMode |-> "user", fps |-> NoCadence, onFrame |-> NoSink,
     lastFrameData |-> NoPixels, lastSignificantFrame |-> <<>>,
     frameCount |-> 0, elapsed |-> FRAME_INTERVAL,
     display |-> "", thumb |-> NoPixels]

\* event: the operation the last task performed (op), the capturer and manager
\* it was about, why a start failed, the capturers whose stop() ran during the
\* task, for a sampling tick that got as far as encoding a frame the payload
\* (data), whether the frame callback was invoked (called), how many times
\* (calls) and the width and height it was passed, and, when the
\* task invoked an outbound sink, the sink and the payload it was given.
NoEvent ==
    [op |-> "none", r |-> 0, v |-> 0, why |-> "", stopped |-> {},
     called |-> FALSE, calls |-> 0, width |-> 0, height |-> 0, sink |-> 0,
     data |-> <<>>]

\* The tick of capturer r encoded payload p.
Encoded(s, r, p) ==
    [s EXCEPT !.event = [@ EXCEPT !.op = "tick", !.r = r, !.data = <<p>>]]

\* The tick invokes the frame callback.
Calling(s) == [s EXCEPT !.event.called = TRUE, !.event.calls = @ + 1]

\* The tick invokes the frame callback with a width and a height.
CallingWith(s, width, height) ==
    [s EXCEPT !.event.called = TRUE, !.event.calls = @ + 1,
              !.event.width = width, !.event.height = height]

Mark(s, op, r, v, why) ==
    [s EXCEPT !.event = [s.event EXCEPT !.op = op, !.r = r, !.v = v,
                                        !.why = why]]

\* history.start[v]: the arguments of the latest start(fps, onFrame) a caller
\*   made on manager v;
\* history.flip[r]: for a capturer a flip constructed, history.start and the
\*   manager's facing mode as they were when the flip began;
\* history.drops: how many candidates in a row the motion gate of an active
\*   manager has dropped since it last forwarded one;
\* history.settings[r]: what getSettings() of the track capturer r acquired
\*   reports, the resolution the device negotiated;
\* history.cancelled: the capturers on which a caller's stop() or the flip
\*   button's handler ran stop() while their start was still pending;
\* history.first[r]: what the motion gate did with the first candidate of
\*   capturer r whose decode completed: "passed", "dropped", or "none" while no
\*   decode of a frame of r has completed;
\* history.sinks[v]: how many times frames of manager v were handed to a sink
\*   since VideoManager.stop() last ran on v;
\* history.sunk[v]: the payload of the latest of those invocations.
NoArgs == [fps |-> NoCadence, onFrame |-> NoSink, facingMode |-> ""]

NoSettings == [width |-> 0, height |-> 0]

NoHistory ==
    [start |-> [v \in VMs |-> NoArgs], flip |-> [r \in RecIds |-> NoArgs],
     drops |-> 0, settings |-> [r \in RecIds |-> NoSettings],
     cancelled |-> {}, first |-> [r \in RecIds |-> "none"],
     sinks |-> [v \in VMs |-> 0], sunk |-> [v \in VMs |-> <<>>]]

NoVideoManager == [NewVideoManager EXCEPT !.constructed = FALSE]

\* No frames are being compared.
NoComparison ==
    [prevFrame |-> <<>>, currentFrame |-> <<>>, scored |-> FALSE,
     score |-> [num |-> 0, den |-> 1]]

\* main.js lines 85-86: let isVideoActive = false; let videoManager = null.
NoApp == [isVideoActive |-> FALSE, videoManager |-> 0]

\* The objects as their constructors leave them.
Constructed ==
    /\ app = NoApp
    /\ rec = [r \in RecIds |-> Unconstructed]
    /\ call = [r \in RecIds |-> NoCall]
    /\ track = [r \in RecIds |-> "none"]
    /\ preview = [srcObject |-> NoStream, paused |-> TRUE]
    /\ device = [r \in RecIds |-> NoSettings]
    /\ vm = [v \in VMs |-> IF v = 1 THEN NewVideoManager ELSE NoVideoManager]
    /\ decoding = <<>>
    /\ drawing = <<>>
    /\ event = NoEvent
    /\ history = NoHistory

Init ==
    /\ role \in {"camera", "screen"}
    /\ Constructed
    /\ motion = NoComparison

\* The slot the next constructor call takes (0 when the model's pool is used up).
NextRec(s) ==
    IF \E r \in RecIds : s.rec[r].kind = "none"
    THEN CHOOSE r \in RecIds :
           /\ s.rec[r].kind = "none"
           /\ \A q \in RecIds : q < r => s.rec[q].kind # "none"
    ELSE NoRec

\* ------------------------------------------------------- the <video> element
\* HTMLMediaElement.pause() and the load algorithm reject the play() promises
\* that are still pending on the element (HTML standard, "pending play
\* promises"): such a play() can only reject from then on.
AbortPendingPlays(s, except) ==
    [s EXCEPT !.call =
        [q \in RecIds |->
            IF q # except /\ s.call[q].pc = "play"
            THEN [s.call[q] EXCEPT !.pc = "playAborted"]
            ELSE s.call[q]]]

\* previewElement.pause(); .srcObject = null; .src = ''; .load()
DetachPreview(s) ==
    [AbortPendingPlays(s, NoRec) EXCEPT
        !.preview = [srcObject |-> NoStream, paused |-> TRUE]]

\* previewElement.srcObject = stream, followed by play()
AttachPreview(s, r) ==
    [AbortPendingPlays(s, r) EXCEPT
        !.preview = [srcObject |-> r, paused |-> FALSE]]

\* stream.getTracks().forEach(track => track.stop())
StopTracks(s, stream) ==
    IF stream # NoStream /\ s.track[stream] = "live"
    THEN [s EXCEPT !.track[stream] = "stopped"]
    ELSE s

\* ------------------------------------------------------------ VideoRecorder
\* A stop that forgets the stream before it has stopped the tracks: the
\* fault C2_StopReleasesTracks has to detect.
VRStopForgetsStream(s, r) ==
    LET s1 == [s EXCEPT !.rec[r].isRecording = FALSE,
                        !.rec[r].captureInterval = FALSE,
                        !.rec[r].stream = NoStream,
                        !.event.stopped = @ \cup {r}]
    IN  IF s1.rec[r].previewElement THEN DetachPreview(s1) ELSE s1

\* A stop that cleans the preview element without asking whether the capturer
\* was ever given one: the fault C14_StopBeforeStartKeepsInitialState has to
\* detect.
VRStopAlwaysDetaches(s, r) ==
    LET s1 == [s EXCEPT !.rec[r].isRecording = FALSE,
                        !.rec[r].captureInterval = FALSE,
                        !.event.stopped = @ \cup {r}]
        s2 == IF s1.rec[r].stream # NoStream
              THEN [StopTracks(s1, s1.rec[r].stream) EXCEPT
                        !.rec[r].stream = NoStream]
              ELSE s1
    IN  DetachPreview(s2)

\* VideoRecorder.stop
VRStop(s, r) ==
    LET s1 == [s EXCEPT !.rec[r].isRecording = FALSE,
                        !.rec[r].captureInterval = FALSE,
                        !.event.stopped = @ \cup {r}]
        s2 == IF s1.rec[r].stream # NoStream
              THEN [StopTracks(s1, s1.rec[r].stream) EXCEPT
                        !.rec[r].stream = NoStream]
              ELSE s1
    IN  IF s2.rec[r].previewElement THEN DetachPreview(s2) ELSE s2

\* The cleanup steps of a capturer's stop() that call into the platform and
\* can throw: track.stop(), the preview's pause()/load(), the canvas clearRect.
StopSteps == {"track", "preview", "canvas"}

\* Whether stop() of capturer r gets as far as the step.
StepRuns(s, r, step) ==
    CASE step = "track" -> s.rec[r].stream # NoStream
      [] step = "preview" -> s.rec[r].previewElement
      [] OTHER -> TRUE

\* VideoRecorder.stop when the step throws: the one try block of lines 172-206
\* is left at that step, and the catch wraps the error and rethrows.
VRStopThrows(s, r, step) ==
    LET s1 == [s EXCEPT !.rec[r].isRecording = FALSE,
                        !.rec[r].captureInterval = FALSE]
        s2 == IF s1.rec[r].stream # NoStream
              THEN [StopTracks(s1, s1.rec[r].stream) EXCEPT
                        !.rec[r].stream = NoStream]
              ELSE s1
        s3 == IF s2.rec[r].previewElement THEN DetachPreview(s2) ELSE s2
    IN  CASE step = "track" -> s1
          [] step = "preview" -> s2
          [] OTHER -> s3

\* ------------------------------------------------------------- VideoManager
\* A stop that toggles the container instead of hiding it: the fault
\* C6_StopIdempotent has to detect.
VMStopTogglesContainer(s, v) ==
    LET s1 == IF s.vm[v].videoRecorder # NoRec
              THEN VRStop(s, s.vm[v].videoRecorder)
              ELSE s
    IN  [s1 EXCEPT !.vm[v].videoRecorder = NoRec,
                   !.vm[v].isActive = FALSE,
                   !.vm[v].thumb = NoPixels,
                   !.vm[v].display = IF @ = "none" THEN "block" ELSE "none",
                   !.vm[v].lastFrameData = NoPixels,
                   !.vm[v].lastSignificantFrame = <<>>,
                   !.vm[v].frameCount = 0]

\* VideoManager.stop
VMStop(s, v) ==
    LET s1 == IF s.vm[v].videoRecorder # NoRec
              THEN VRStop(s, s.vm[v].videoRecorder)
              ELSE s
    IN  [s1 EXCEPT !.vm[v].videoRecorder = NoRec,
                   !.vm[v].isActive = FALSE,
                   !.vm[v].thumb = NoPixels,
                   !.vm[v].display = "none",
                   !.vm[v].lastFrameData = NoPixels,
                   !.vm[v].lastSignificantFrame = <<>>,
                   !.vm[v].frameCount = 0]

\* VideoManager.stop when a step of videoRecorder.stop() throws: the exception
\* leaves stop() at line 269, before any of its own assignments.
VMStopThrows(s, v, step) == VRStopThrows(s, s.vm[v].videoRecorder, step)

\* VideoManager.start up to its first suspension: the assignments of lines
\* 176-183, then VideoRecorder.start up to `await getUserMedia(...)`.
VMStart(s, v, fps, onFrame, via) ==
    LET r == NextRec(s)
    IN  [s EXCEPT !.vm[v].onFrame = onFrame,
                  !.vm[v].fps = fps,
                  !.vm[v].display = "block",
                  !.vm[v].videoRecorder = r,
                  !.rec[r] = [NewVideoRecorder(fps) EXCEPT
                                 !.previewElement = TRUE,
                                 !.onVideoData = TRUE],
                  !.call[r] = [pc |-> "acquire", via |-> via, vm |-> v,
                               facingMode |-> s.vm[v].facingMode,
                               onFrame |-> onFrame]]

OtherFacing(f) == IF f = "user" THEN "environment" ELSE "user"

\* A flip handler that restarts with no arguments, `await this.start()`: the
\* fault C10_FlipKeepsCadenceAndSink has to detect.
FlipClickHandlerNoArgs(s, v) ==
    LET s1 == IF s.vm[v].videoRecorder # NoRec
              THEN [VRStop(s, s.vm[v].videoRecorder) EXCEPT
                        !.vm[v].videoRecorder = NoRec]
              ELSE s
        s2 == [s1 EXCEPT !.vm[v].isActive = FALSE,
                         !.vm[v].facingMode = OtherFacing(s.vm[v].facingMode)]
    IN  VMStart(s2, v, NoCadence, NoSink, "flipClick")

\* The click listener the constructor puts on the flip-camera button, up to
\* its await.
FlipClickHandler(s, v) ==
    LET s1 == IF s.vm[v].videoRecorder # NoRec
              THEN [VRStop(s, s.vm[v].videoRecorder) EXCEPT
                        !.vm[v].videoRecorder = NoRec]
              ELSE s
        s2 == [s1 EXCEPT !.vm[v].isActive = FALSE,
                         !.vm[v].facingMode = OtherFacing(s.vm[v].facingMode)]
    IN  VMStart(s2, v, s2.vm[v].fps, s2.vm[v].onFrame, "flipClick")

\* VideoManager.flipCamera, up to its await.
FlipCamera(s, v) ==
    LET s1 == [s EXCEPT !.vm[v].facingMode = OtherFacing(s.vm[v].facingMode)]
    IN  VMStart(s1, v, s1.vm[v].fps, s1.vm[v].onFrame, "flipCamera")

\* The catch of VideoRecorder.start (lines 107-114): it logs, wraps the error
\* and rethrows, and the promise of start rejects.
VRStartRejected(s, r) == [s EXCEPT !.call[r].pc = "rejected"]

\* A VideoManager.start whose catch rethrows without this.stop(): the fault
\* C30_DeniedNeverStarts has to detect.
VMStartRejectedWithoutStop(s, r) == VRStartRejected(s, r)

\* VideoRecorder.start throws: its catch rethrows, VideoManager.start's catch
\* runs this.stop() and rethrows, and the flip click handler's catch runs
\* this.stop() once more.
VMStartRejected(s, r) ==
    LET v == s.call[r].vm
        s1 == VMStop(VRStartRejected(s, r), v)
    IN  IF s.call[r].via = "flipClick" THEN VMStop(s1, v) ELSE s1

\* A start that leaves the internal canvas at the requested resolution: the
\* fault C12_NegotiatedResolution has to detect.
VRAcquiredKeepsRequested(s, r, settings) ==
    LET s1 == [s EXCEPT !.rec[r].stream = r, !.track[r] = "live",
                        !.device[r] = settings,
                        !.rec[r].actualWidth = settings.width,
                        !.rec[r].actualHeight = settings.height,
                        !.rec[r].frameCanvas =
                            [width |-> RequestedWidth,
                             height |-> RequestedHeight]]
    IN  [AttachPreview(s1, r) EXCEPT !.call[r].pc = "play"]

\* getUserMedia resolved with a stream that has a video track: lines 62-88,
\* up to `await this.previewElement.play()`.  settings: what getSettings() of
\* the track returns.
VRAcquired(s, r, settings) ==
    LET s1 == [s EXCEPT !.rec[r].stream = r, !.track[r] = "live",
                        !.device[r] = settings,
                        !.rec[r].actualWidth = settings.width,
                        !.rec[r].actualHeight = settings.height,
                        !.rec[r].frameCanvas =
                            [width |-> settings.width,
                             height |-> settings.height]]
    IN  [AttachPreview(s1, r) EXCEPT !.call[r].pc = "play"]

\* getUserMedia resolved with a stream without tracks: line 62 throws.
VRAcquiredEmpty(s, r) ==
    VMStartRejected([s EXCEPT !.rec[r].stream = r, !.track[r] = "empty"], r)

\* play() resolved: lines 96-105, then VideoManager.start lines 201-203.
VRPlaying(s, r) ==
    [s EXCEPT !.rec[r].isRecording = TRUE,
              !.rec[r].captureInterval = TRUE,
              !.call[r].pc = "resolved",
              !.vm[s.call[r].vm].isActive = TRUE]

\* The 'ended' listener start() registers on the video track: this.stop().
VROnEnded(s, r) == VRStop(s, r)

\* Date.now() moves on by ms: every manager's elapsed grows, up to the cap.
AdvanceTime(s, ms) ==
    [s EXCEPT !.vm =
        [v \in VMs |->
            [s.vm[v] EXCEPT !.elapsed =
                IF s.vm[v].elapsed + ms >= FRAME_INTERVAL
                THEN FRAME_INTERVAL
                ELSE s.vm[v].elapsed + ms]]]

\* const frameInterval = 1000 / this.options.fps (a null cadence makes the
\* delay Infinity, which setInterval takes as 0).
FrameIntervalMs(fps) == IF fps = NoCadence THEN 0 ELSE MsPerSecond \div fps

\* VideoManager.processFrame up to img.src = ...: the decode is now pending.
processFrame(s, v, p, originalWidth, originalHeight, onFrame, r) ==
    [s EXCEPT !.decoding =
        Append(s.decoding, [vm |-> v, payload |-> p,
                            originalWidth |-> originalWidth,
                            originalHeight |-> originalHeight,
                            onFrame |-> onFrame, from |-> r])]

\* The callback VideoManager.start hands to VideoRecorder.start (lines 186-199).
VMOnVideoData(s, r, p, originalWidth, originalHeight) ==
    LET v == s.call[r].vm
    IN  IF ~s.vm[v].isActive THEN s
        ELSE IF s.vm[v].elapsed < FRAME_INTERVAL THEN s
        ELSE processFrame(s, v, p, originalWidth, originalHeight,
                          s.call[r].onFrame, r)

\* A tick that encodes and hands on whatever the canvas holds when the preview
\* has no current data: the fault C34_NotReadyTickIsNoOp has to detect.
VRTickIgnoresReady(s, r, ready, p) ==
    IF ~s.rec[r].isRecording \/ ~s.rec[r].onVideoData
         \/ ~s.rec[r].previewElement
    THEN s
    ELSE LET s1 == VMOnVideoData(CallingWith(Encoded(s, r, p),
                                             s.rec[r].actualWidth,
                                             s.rec[r].actualHeight),
                                 r, p, s.rec[r].actualWidth,
                                 s.rec[r].actualHeight)
         IN  IF ready THEN s1
             ELSE Mark(s1, "tickNotReady", r, s.call[r].vm, "readyState")

\* One firing of the setInterval callback of VideoRecorder.startFrameCapture.
\* ready: previewElement.readyState >= HAVE_CURRENT_DATA; p: what toDataURL
\* and split(',')[1] produced.  A tick that finds the preview not ready takes
\* the empty else branch of line 155.
VRTick(s, r, ready, p) ==
    IF ~s.rec[r].isRecording \/ ~s.rec[r].onVideoData
         \/ ~s.rec[r].previewElement
    THEN s
    ELSE IF ~ready THEN Mark(s, "tickNotReady", r, s.call[r].vm, "readyState")
    ELSE IF ~validateFrame(p) THEN Encoded(s, r, p)
    ELSE VMOnVideoData(CallingWith(Encoded(s, r, p), s.rec[r].actualWidth,
                                   s.rec[r].actualHeight),
                       r, p, s.rec[r].actualWidth, s.rec[r].actualHeight)

\* The steps of a tick inside its try block that can throw: drawImage,
\* toDataURL and the frame callback.
TickSteps == {"draw", "encode", "callback"}

\* A catch that stops the capturer when a tick throws: the fault
\* C28_TickFailureContained has to detect.
VRTickThrowsAndStops(s, r, p, step) ==
    Mark(VRStop(s, r), "tickCaught", r, s.call[r].vm, step)

\* One firing of the timer callback of VideoRecorder.startFrameCapture in
\* which the step throws: the catch of lines 158-160 logs the error and the
\* callback returns.  A callback that throws has not handed the frame on.
VRTickThrows(s, r, p, step) ==
    Mark(IF step = "callback"
         THEN CallingWith(Encoded(s, r, p), s.rec[r].actualWidth,
                          s.rec[r].actualHeight)
         ELSE s,
         "tickCaught", r, s.call[r].vm, step)

RemoveAt(q, i) == SubSeq(q, 1, i - 1) \o SubSeq(q, i + 1, Len(q))

\* A gate without the forced frame: the fault C23_GatePolicy has to detect.
GateDropsNeverForces(V, px) ==
    /\ V.lastFrameData # NoPixels
    /\ BelowThreshold(detectMotion(Pixels(V.lastFrameData), Pixels(px)))

\* The motion gate of processFrame's img.onload: TRUE when the frame is dropped.
GateDrops(V, px) ==
    /\ V.lastFrameData # NoPixels
    /\ BelowThreshold(detectMotion(Pixels(V.lastFrameData), Pixels(px)))
    /\ V.frameCount % FORCE_FRAME_INTERVAL # 0

\* onFrame({mimeType: "image/jpeg", data: base64Data}); calling a null onFrame
\* throws inside onload and nothing is delivered.
CallSink(s, onFrame, p, r) ==
    IF onFrame = NoSink THEN s
    ELSE [s EXCEPT !.event =
             [s.event EXCEPT !.op = "sink", !.r = r, !.sink = onFrame,
                             !.data = <<p>>]]

\* VideoManager.updateFramePreview up to img.src = ...: the draw is pending.
updateFramePreview(s, v, p) ==
    [s EXCEPT !.drawing = Append(s.drawing, [vm |-> v, px |-> p.px])]

\* An onload that counts a frame before it consults the motion gate: the
\* fault C25_CountAndCacheFollowSink has to detect.
OnDecodedCountsFirst(s, i) ==
    LET d == s.decoding[i]
        v == d.vm
        s1 == [s EXCEPT !.decoding = RemoveAt(s.decoding, i),
                        !.vm[v].frameCount = s.vm[v].frameCount + 1]
    IN  IF GateDrops(s.vm[v], d.payload.px) THEN s1
        ELSE LET s2 == updateFramePreview(s1, v, d.payload)
                 s3 == [s2 EXCEPT
                           !.vm[v].lastFrameData = d.payload.px,
                           !.vm[v].lastSignificantFrame = <<d.payload>>,
                           !.vm[v].elapsed = 0]
             IN  CallSink(s3, d.onFrame, d.payload, d.from)

\* An onload that refreshes the thumbnail before it consults the motion gate:
\* the fault C11_DroppedFrameChangesNothing has to detect.
OnDecodedRefreshesFirst(s, i) ==
    LET d == s.decoding[i]
        v == d.vm
        s1 == updateFramePreview(
                  [s EXCEPT !.decoding = RemoveAt(s.decoding, i)], v, d.payload)
    IN  IF GateDrops(s.vm[v], d.payload.px) THEN s1
        ELSE CallSink([s1 EXCEPT
                          !.vm[v].lastFrameData = d.payload.px,
                          !.vm[v].lastSignificantFrame = <<d.payload>>,
                          !.vm[v].elapsed = 0,
                          !.vm[v].frameCount = s.vm[v].frameCount + 1],
                      d.onFrame, d.payload, d.from)

\* img.onload of processFrame for the i-th pending decode.
OnDecoded(s, i) ==
    LET d == s.decoding[i]
        v == d.vm
        s1 == [s EXCEPT !.decoding = RemoveAt(s.decoding, i)]
    IN  IF GateDrops(s.vm[v], d.payload.px) THEN s1
        ELSE LET s2 == updateFramePreview(s1, v, d.payload)
                 s3 == [s2 EXCEPT
                           !.vm[v].lastFrameData = d.payload.px,
                           !.vm[v].lastSignificantFrame = <<d.payload>>,
                           !.vm[v].elapsed = 0,
                           !.vm[v].frameCount = s.vm[v].frameCount + 1]
             IN  CallSink(s3, d.onFrame, d.payload, d.from)

\* img.onload of updateFramePreview for the i-th pending draw: clearRect, then
\* drawImage letterboxed.
OnDrawn(s, i) ==
    [s EXCEPT !.vm[s.drawing[i].vm].thumb = s.drawing[i].px,
              !.drawing = RemoveAt(s.drawing, i)]

\* ----------------------------------------------------------- ScreenRecorder
\* ScreenRecorder.stop
SRStop(s, r) ==
    LET s1 == [s EXCEPT !.rec[r].isRecording = FALSE,
                        !.rec[r].captureInterval = FALSE,
                        !.event.stopped = @ \cup {r}]
        s2 == IF s1.rec[r].stream # NoStream
              THEN [StopTracks(s1, s1.rec[r].stream) EXCEPT
                        !.rec[r].stream = NoStream]
              ELSE s1
    IN  IF s2.rec[r].previewElement THEN DetachPreview(s2) ELSE s2

\* ScreenRecorder.stop when the step throws: the one try block of lines
\* 989-1025 is left at that step, and the catch wraps the error and rethrows.
SRStopThrows(s, r, step) ==
    LET s1 == [s EXCEPT !.rec[r].isRecording = FALSE,
                        !.rec[r].captureInterval = FALSE]
        s2 == IF s1.rec[r].stream # NoStream
              THEN [StopTracks(s1, s1.rec[r].stream) EXCEPT
                        !.rec[r].stream = NoStream]
              ELSE s1
        s3 == IF s2.rec[r].previewElement THEN DetachPreview(s2) ELSE s2
    IN  CASE step = "track" -> s1
          [] step = "preview" -> s2
          [] OTHER -> s3

\* new ScreenRecorder() and ScreenRecorder.start up to
\* `await getDisplayMedia(...)`.
SRStart(s, onScreenData) ==
    LET r == NextRec(s)
    IN  [s EXCEPT !.rec[r] = [NewScreenRecorder EXCEPT
                                 !.onVideoData = TRUE,
                                 !.previewElement = TRUE],
                  !.call[r] = [pc |-> "acquire", via |-> "screen", vm |-> 0,
                               facingMode |-> "user",
                               onFrame |-> onScreenData]]

\* What the display delivers where 1280 x 720 was asked for as ideal.
DisplayResolution == [width |-> 1280, height |-> 720]

\* getDisplayMedia resolved: the stream is attached to the preview (which
\* reloads the element, paused) and start waits for onloadedmetadata.
SRAcquired(s, r) ==
    LET s1 == [s EXCEPT !.rec[r].stream = r, !.track[r] = "live",
                        !.device[r] = DisplayResolution]
    IN  [AbortPendingPlays(s1, r) EXCEPT
            !.preview = [srcObject |-> r, paused |-> TRUE],
            !.call[r].pc = "metadata"]

\* getDisplayMedia resolved with a stream without tracks: start does not look
\* at the tracks, attaches the stream and waits for onloadedmetadata.
SRAcquiredEmpty(s, r) ==
    LET s1 == [s EXCEPT !.rec[r].stream = r, !.track[r] = "empty"]
    IN  [AbortPendingPlays(s1, r) EXCEPT
            !.preview = [srcObject |-> r, paused |-> TRUE],
            !.call[r].pc = "metadata"]

\* getDisplayMedia rejected: the catch of start rethrows, nothing else.
SRDenied(s, r) == [s EXCEPT !.call[r].pc = "rejected"]

\* onloadedmetadata fired: the handler calls play().
SROnLoadedMetadata(s, r) ==
    [s EXCEPT !.preview.paused = FALSE, !.call[r].pc = "play"]

\* play() settled either way (then: resolve(); catch: resolve()): lines
\* 906-913.  getVideoTracks() of a null stream throws, after the loop is armed.
SRArmed(s, r) ==
    LET s1 == [s EXCEPT !.rec[r].isRecording = TRUE,
                        !.rec[r].captureInterval = TRUE]
    IN  IF s1.rec[r].stream = NoStream
        THEN [s1 EXCEPT !.call[r].pc = "rejected"]
        ELSE [s1 EXCEPT !.call[r].pc = "resolved"]

\* The 'ended' listener of the screen track: this.stop().
SROnEnded(s, r) == SRStop(s, r)

\* previewElement.videoWidth and videoHeight: the resolution of the stream the
\* element shows.
VideoSize(s) ==
    IF s.preview.srcObject = NoStream THEN NoSettings
    ELSE s.device[s.preview.srcObject]

\* Lines 950-954: the canvas takes the size of the preview's video when the
\* two differ.
SRResizeCanvas(s, r) ==
    IF s.rec[r].frameCanvas # VideoSize(s)
    THEN [s EXCEPT !.rec[r].frameCanvas = VideoSize(s)]
    ELSE s

\* One firing of the setInterval callback of ScreenRecorder.startFrameCapture.
SRTick(s, r, ready, p) ==
    IF ~s.rec[r].isRecording \/ ~s.rec[r].previewElement
         \/ ~s.rec[r].onVideoData
    THEN s
    ELSE IF ~ready THEN Mark(s, "tickNotReady", r, 0, "readyState")
    ELSE LET s1 == SRResizeCanvas(s, r)
         IN  IF screenValidateFrame(p)
             THEN CallSink(Calling(Encoded(s1, r, p)), s.call[r].onFrame, p, r)
             ELSE Encoded(s1, r, p)

\* One firing of the timer callback of ScreenRecorder.startFrameCapture in
\* which the step throws: the catch of lines 975-977 logs the error.  The
\* canvas was given the size of the video before the first step that can throw.
SRTickThrows(s, r, p, step) ==
    LET s1 == SRResizeCanvas(s, r)
    IN  Mark(IF step = "callback" THEN Calling(Encoded(s1, r, p)) ELSE s1,
             "tickCaught", r, 0, step)

\* -------------------------------------------------------------- task end
\* No task is being looked at: the next task may start.
Quiet == event = NoEvent

\* The task is over: its record is dropped.
Settle == ~Quiet /\ Run([St EXCEPT !.event = NoEvent])

\* ----------------------------------------------------------------- actions
\* The (cadence, sink) pairs callers pass to VideoManager.start.
LifecycleArgs == {<<5, 1>>, <<1, 2>>}

\* A caller invokes VideoManager.start(fps, onFrame).  (slots bounds the
\* capturer slots a specification uses.)
CallStart(args, slots) ==
    /\ Quiet
    /\ role = "camera"
    /\ NextRec(St) \in slots
    /\ \E v \in VMs, a \in args :
         /\ vm[v].constructed
         /\ RunNoting(Mark(VMStart(St, v, a[1], a[2], "start"),
                            "start", NextRec(St), v, ""),
                       [history EXCEPT !.start[v] =
                           [fps |-> a[1], onFrame |-> a[2], facingMode |-> ""]])

\* The start of capturer r has not settled yet.
PendingStart(r) == call[r].pc \in {"acquire", "play", "playAborted"}

\* s is the state a task leaves: the capturers it stopped while their start
\* was pending are noted.
CancelNoted(h, s) ==
    [h EXCEPT !.cancelled = @ \cup {r \in s.event.stopped : PendingStart(r)}]

\* VideoManager.stop() ran on manager v.
StopNoted(h, v) == [h EXCEPT !.sinks[v] = 0, !.sunk[v] = <<>>]

\* A caller invokes VideoManager.stop().
CallStop ==
    /\ Quiet
    /\ role = "camera"
    /\ \E v \in VMs :
         /\ vm[v].constructed
         /\ RunNoting(Mark(VMStop(St, v), "stop", vm[v].videoRecorder, v, ""),
                       StopNoted(CancelNoted(history, VMStop(St, v)), v))

RECURSIVE FlipClickFrom(_, _)
\* A click on the flip-camera button runs the listener of every VideoManager
\* that was constructed, in the order of construction.
FlipClickFrom(s, v) ==
    IF v > MaxVM THEN s
    ELSE FlipClickFrom(IF s.vm[v].constructed THEN FlipClickHandler(s, v)
                       ELSE s,
                       v + 1)

\* The history of a flip: for every capturer the task constructed, what the
\* latest start had asked for and the facing mode before the flip.
FlipNoted(s) ==
    [history EXCEPT !.flip =
        [r \in RecIds |->
            IF rec[r].kind = "none" /\ s.rec[r].kind # "none"
            THEN [history.start[s.call[r].vm] EXCEPT
                     !.facingMode = vm[s.call[r].vm].facingMode]
            ELSE history.flip[r]]]

FreeRecs(s) == Cardinality({r \in RecIds : s.rec[r].kind = "none"})

\* The user clicks the flip-camera button.
ClickFlip ==
    /\ Quiet
    /\ role = "camera"
    /\ FreeRecs(St) >= Cardinality({v \in VMs : vm[v].constructed})
    /\ LET s1 == FlipClickFrom(St, 1)
       IN  RunNoting(Mark(s1, "flipClick", NextRec(St), 0, ""),
                     CancelNoted(FlipNoted(s1), s1))

\* A caller invokes VideoManager.flipCamera().
CallFlipCamera ==
    /\ Quiet
    /\ role = "camera"
    /\ NextRec(St) # NoRec
    /\ \E v \in VMs :
         /\ vm[v].constructed
         /\ LET s1 == FlipCamera(St, v)
            IN  RunNoting(Mark(s1, "flipCamera", NextRec(St), v, ""),
                          FlipNoted(s1))

Acquiring(r, kind) == Quiet /\ rec[r].kind = kind /\ call[r].pc = "acquire"

Rejected(s, r, why) == Mark(s, "rejected", r, call[r].vm, why)

\* getUserMedia resolves with a camera stream.
AcquireResolves(resolutions) ==
    \E r \in RecIds, settings \in resolutions :
        /\ Acquiring(r, "camera")
        /\ RunNoting(VRAcquired(St, r, settings),
                     [history EXCEPT !.settings[r] = settings])

\* getUserMedia resolves with a stream that has no tracks.
AcquireResolvesEmpty ==
    \E r \in RecIds :
        /\ Acquiring(r, "camera")
        /\ RunNoting(Rejected(VRAcquiredEmpty(St, r), r, "empty"),
                     StopNoted(history, call[r].vm))

\* getUserMedia rejects (permission denied, no device).
AcquireRejects ==
    \E r \in RecIds :
        /\ Acquiring(r, "camera")
        /\ RunNoting(Rejected(VMStartRejected(St, r), r, "denied"),
                     StopNoted(history, call[r].vm))

\* The preview's play() promise resolves.
PlayResolves ==
    \E r \in RecIds :
        /\ Quiet
        /\ rec[r].kind = "camera"
        /\ call[r].pc = "play"
        /\ Run(Mark(VRPlaying(St, r), "resolved", r, call[r].vm, ""))

\* The preview's play() promise rejects.
PlayRejects ==
    \E r \in RecIds :
        /\ Quiet
        /\ rec[r].kind = "camera"
        /\ call[r].pc \in {"play", "playAborted"}
        /\ RunNoting(Rejected(VMStartRejected(St, r), r, "play"),
                     StopNoted(history, call[r].vm))

\* The device ends a live track (unplugged, permission revoked, share
\* stopped); the 'ended' listener runs if start() got as far as adding it.
TrackEnds ==
    \E r \in RecIds :
        /\ Quiet
        /\ track[r] = "live"
        /\ LET s1 == Mark([St EXCEPT !.track[r] = "ended"],
                          "ended", r, call[r].vm, "")
           IN  Run(IF call[r].pc # "resolved" THEN s1
                      ELSE IF rec[r].kind = "camera" THEN VROnEnded(s1, r)
                      ELSE SROnEnded(s1, r))

\* A long time passes without any event.
TimePasses ==
    /\ Quiet
    /\ \E v \in VMs : vm[v].elapsed < FRAME_INTERVAL
    /\ Run(AdvanceTime(St, FRAME_INTERVAL))

\* The element can have current data only while a stream is attached.
ReadyStates == IF preview.srcObject = NoStream THEN {FALSE} ELSE BOOLEAN

\* The sampling timer of a camera capturer fires, one interval after the
\* previous firing.  (The two comparisons with max... only bound the model.)
TimerFires(scenes, maxDecoding, maxFrames) ==
    \E r \in RecIds :
        /\ Quiet
        /\ rec[r].kind = "camera"
        /\ rec[r].captureInterval
        /\ Len(decoding) < maxDecoding
        /\ vm[call[r].vm].frameCount + Len(decoding) < maxFrames
        /\ \E ready \in ReadyStates, p \in PayloadsOf(scenes) :
             Run(VRTick(AdvanceTime(St, FrameIntervalMs(rec[r].fps)),
                           r, ready, p))

\* The image processFrame is decoding loads.  (The comparison with maxDrawing
\* only bounds the model; the history counts dropped candidates up to countTo.)
DecodeCompletes(maxDrawing, countTo) ==
    /\ Quiet
    /\ Len(drawing) < maxDrawing
    /\ \E i \in 1..Len(decoding) :
         LET v == decoding[i].vm
             s1 == OnDecoded(St, i)
         IN  RunNoting(s1,
                 [history EXCEPT
                     !.drops =
                         IF s1.vm[v].frameCount # vm[v].frameCount
                              \/ ~vm[v].isActive
                         THEN 0
                         ELSE IF @ < countTo THEN @ + 1 ELSE @,
                     !.first[decoding[i].from] =
                         IF @ # "none" THEN @
                         ELSE IF s1.vm[v].frameCount # vm[v].frameCount
                              THEN "passed"
                         ELSE "dropped",
                     !.sinks[v] = IF s1.event.op = "sink" THEN @ + 1 ELSE @,
                     !.sunk[v] = IF s1.event.op = "sink" THEN s1.event.data
                                 ELSE @])

\* The image updateFramePreview is decoding loads.
DrawCompletes ==
    /\ Quiet
    /\ \E i \in 1..Len(drawing) : Run(OnDrawn(St, i))

\* A caller constructs a ScreenRecorder and invokes start(preview, onScreenData).
ScreenCallStart ==
    /\ Quiet
    /\ role = "screen"
    /\ NextRec(St) # NoRec
    /\ \E k \in Sinks :
         Run(Mark(SRStart(St, k), "start", NextRec(St), 0, ""))

\* A caller invokes ScreenRecorder.stop().
ScreenCallStop ==
    \E r \in RecIds :
        /\ Quiet
        /\ rec[r].kind = "screen"
        /\ Run(Mark(SRStop(St, r), "stop", r, 0, ""))

\* getDisplayMedia resolves.
ScreenAcquireResolves ==
    \E r \in RecIds : Acquiring(r, "screen") /\ Run(SRAcquired(St, r))

\* getDisplayMedia resolves with a stream that has no tracks.
ScreenAcquireResolvesEmpty ==
    \E r \in RecIds : Acquiring(r, "screen") /\ Run(SRAcquiredEmpty(St, r))

\* getDisplayMedia rejects.
ScreenAcquireRejects ==
    \E r \in RecIds :
        /\ Acquiring(r, "screen")
        /\ Run(Mark(SRDenied(St, r), "rejected", r, 0, "denied"))

\* The preview element has loaded the metadata of the attached stream and
\* calls the onloadedmetadata handler, which is the one of the capturer
\* whose stream is attached.  (An element given a stream without tracks stays
\* at HAVE_NOTHING and fires no loadedmetadata.)
ScreenMetadataLoads ==
    \E r \in RecIds :
        /\ Quiet
        /\ rec[r].kind = "screen"
        /\ call[r].pc = "metadata"
        /\ preview.srcObject = r
        /\ track[r] # "empty"
        /\ Run(SROnLoadedMetadata(St, r))

\* What SRArmed ended as.
Armed(s, r) == Mark(s, s.call[r].pc, r, 0, "")

\* The screen preview's play() promise resolves.
ScreenPlayResolves ==
    \E r \in RecIds :
        /\ Quiet
        /\ rec[r].kind = "screen"
        /\ call[r].pc = "play"
        /\ Run(Armed(SRArmed(St, r), r))

\* The screen preview's play() promise rejects.
ScreenPlayRejects ==
    \E r \in RecIds :
        /\ Quiet
        /\ rec[r].kind = "screen"
        /\ call[r].pc \in {"play", "playAborted"}
        /\ Run(Mark(SRArmed(St, r), SRArmed(St, r).call[r].pc, r, 0, "play"))

\* The sampling timer of a screen capturer fires.
ScreenTimerFires(scenes) ==
    \E r \in RecIds :
        /\ Quiet
        /\ rec[r].kind = "screen"
        /\ rec[r].captureInterval
        /\ \E ready \in ReadyStates, p \in PayloadsOf(scenes) :
             Run(SRTick(St, r, ready, p))

\* The scenes the lifecycle specification lets a tick capture.
LifecycleScenes == {1}

\* What the camera negotiates where 640 x 480 was asked for.
LifecycleResolutions == {[width |-> 352, height |-> 288]}

Next ==
    \/ CallStart(LifecycleArgs, RecIds)
    \/ CallStop
    \/ ClickFlip
    \/ CallFlipCamera
    \/ AcquireResolves(LifecycleResolutions)
    \/ AcquireResolvesEmpty
    \/ AcquireRejects
    \/ PlayResolves
    \/ PlayRejects
    \/ TrackEnds
    \/ TimePasses
    \/ TimerFires(LifecycleScenes, MaxDecoding, MaxFrames)
    \/ DecodeCompletes(MaxDrawing, 0)
    \/ DrawCompletes
    \/ ScreenCallStart
    \/ ScreenCallStop
    \/ ScreenAcquireResolves
    \/ ScreenAcquireResolvesEmpty
    \/ ScreenAcquireRejects
    \/ ScreenMetadataLoads
    \/ ScreenPlayResolves
    \/ ScreenPlayRejects
    \/ ScreenTimerFires(LifecycleScenes)
    \/ Settle

\* Camera and screen lifecycle under every interleaving of calls and events.
Spec == Init /\ [][Next]_vars

\* ------------------------------------------------------ the gating pipeline
\* One camera session sampled at a cadence above and at the gate's own rate,
\* in front of a scene that is static (1) or changes completely (3), with
\* more than one frame in decode at a time, long enough for a run of
\* FORCE_FRAME_INTERVAL candidates.
GateArgs == {<<30, 1>>, <<5, 1>>}
GateScenes == {1, 3}
GateDecoding == MaxDecoding + 1
GateResolutions ==
    {[width |-> RequestedWidth, height |-> RequestedHeight],
     [width |-> 352, height |-> 288]}

GateInit == Init /\ role = "camera"

GateNext ==
    \/ CallStart(GateArgs, {1})
    \/ AcquireResolves(GateResolutions)
    \/ PlayResolves
    \/ TimePasses
    \/ TimerFires(GateScenes, GateDecoding, MaxFrames)
    \/ DecodeCompletes(MaxDrawing, FORCE_FRAME_INTERVAL)
    \/ DrawCompletes
    \/ CallStop
    \/ Settle

GateSpec == GateInit /\ [][GateNext]_vars

\* --------------------------------------------------- the gate over many frames
\* One camera session at five frames per second in front of a scene that keeps
\* changing or stands still, long enough for frameCount to pass
\* FORCE_FRAME_INTERVAL.
PolicyArgs == {<<5, 1>>}
PolicyFrames == FORCE_FRAME_INTERVAL + MaxFrames

PolicyNext ==
    \/ CallStart(PolicyArgs, {1})
    \/ AcquireResolves(LifecycleResolutions)
    \/ PlayResolves
    \/ TimePasses
    \/ TimerFires(GateScenes, MaxDecoding, PolicyFrames)
    \/ DecodeCompletes(MaxDrawing, FORCE_FRAME_INTERVAL)
    \/ DrawCompletes
    \/ Settle

PolicySpec == GateInit /\ [][PolicyNext]_vars

\* ------------------------------------------------------ platform calls throw
\* A caller invokes VideoManager.stop() and a cleanup step of the capturer's
\* stop() throws.
CallStopThrows ==
    /\ Quiet
    /\ role = "camera"
    /\ \E v \in VMs, step \in StopSteps :
         /\ vm[v].constructed
         /\ vm[v].videoRecorder # NoRec
         /\ StepRuns(St, vm[v].videoRecorder, step)
         /\ Run(Mark(VMStopThrows(St, v, step), "stopFailed",
                     vm[v].videoRecorder, v, step))

\* A caller invokes ScreenRecorder.stop() and a cleanup step throws.
ScreenCallStopThrows ==
    \E r \in RecIds, step \in StopSteps :
        /\ Quiet
        /\ rec[r].kind = "screen"
        /\ StepRuns(St, r, step)
        /\ Run(Mark(SRStopThrows(St, r, step), "stopFailed", r, 0, step))

\* The tick of capturer r gets as far as the step with payload p: the guards
\* of the callback pass, the preview has current data, and the frame callback
\* is reached only with a frame that validates.
TickReaches(r, p, step) ==
    /\ rec[r].isRecording /\ rec[r].onVideoData /\ rec[r].previewElement
    /\ TRUE \in ReadyStates
    /\ step = "callback" =>
          IF rec[r].kind = "camera" THEN validateFrame(p)
          ELSE screenValidateFrame(p)

\* The sampling timer of a camera capturer fires and a step of the tick throws.
TimerFiresThrows(scenes) ==
    \E r \in RecIds, step \in TickSteps, p \in PayloadsOf(scenes) :
        /\ Quiet
        /\ rec[r].kind = "camera"
        /\ rec[r].captureInterval
        /\ TickReaches(r, p, step)
        /\ Run(VRTickThrows(AdvanceTime(St, FrameIntervalMs(rec[r].fps)),
                            r, p, step))

\* The sampling timer of a screen capturer fires and a step of the tick throws.
ScreenTimerFiresThrows(scenes) ==
    \E r \in RecIds, step \in TickSteps, p \in PayloadsOf(scenes) :
        /\ Quiet
        /\ rec[r].kind = "screen"
        /\ rec[r].captureInterval
        /\ TickReaches(r, p, step)
        /\ Run(SRTickThrows(St, r, p, step))

\* Sessions of both roles in which the platform calls of stop() and of a tick
\* can throw.
FaultNext ==
    \/ CallStart(LifecycleArgs, RecIds)
    \/ CallStop
    \/ CallStopThrows
    \/ AcquireResolves(LifecycleResolutions)
    \/ PlayResolves
    \/ TimePasses
    \/ TimerFires(LifecycleScenes, MaxDecoding, MaxFrames)
    \/ DecodeCompletes(MaxDrawing, 0)
    \/ DrawCompletes
    \/ ScreenCallStart
    \/ ScreenCallStop
    \/ ScreenCallStopThrows
    \/ ScreenAcquireResolves
    \/ ScreenMetadataLoads
    \/ ScreenPlayResolves
    \/ ScreenTimerFires(LifecycleScenes)
    \/ TimerFiresThrows(LifecycleScenes)
    \/ ScreenTimerFiresThrows(LifecycleScenes)
    \/ Settle

FaultSpec == Init /\ [][FaultNext]_vars

\* ------------------------------------------------ screen sessions, with fairness
\* Screen sessions in which the browser delivers what is due: a pending
\* getDisplayMedia settles, a loadedmetadata that can fire does fire, a pending
\* play() settles, and every task ends.  Calls, ticks and the end of a track
\* happen or not.
ScreenInit == Init /\ role = "screen"

ScreenNext ==
    \/ ScreenCallStart
    \/ ScreenCallStop
    \/ ScreenAcquireResolves
    \/ ScreenAcquireResolvesEmpty
    \/ ScreenAcquireRejects
    \/ ScreenMetadataLoads
    \/ ScreenPlayResolves
    \/ ScreenPlayRejects
    \/ ScreenTimerFires(LifecycleScenes)
    \/ TrackEnds
    \/ Settle

ScreenLiveSpec ==
    /\ ScreenInit
    /\ [][ScreenNext]_vars
    /\ WF_vars(Settle)
    /\ WF_vars(ScreenAcquireResolves \/ ScreenAcquireResolvesEmpty
                 \/ ScreenAcquireRejects)
    /\ WF_vars(ScreenMetadataLoads)
    /\ WF_vars(ScreenPlayResolves \/ ScreenPlayRejects)

\* ------------------------------------------------------ the application
\* The arguments handleVideoToggle passes to start: fpsInput.value and the
\* closure that sends the frame.
ToggleArgs == <<5, 1>>

\* The page has loaded: no VideoManager has been constructed.
AppInit ==
    /\ role = "camera"
    /\ rec = [r \in RecIds |-> Unconstructed]
    /\ call = [r \in RecIds |-> NoCall]
    /\ track = [r \in RecIds |-> "none"]
    /\ preview = [srcObject |-> NoStream, paused |-> TRUE]
    /\ device = [r \in RecIds |-> NoSettings]
    /\ vm = [v \in VMs |-> NoVideoManager]
    /\ decoding = <<>>
    /\ drawing = <<>>
    /\ event = NoEvent
    /\ history = NoHistory
    /\ motion = NoComparison
    /\ app = NoApp

\* The VideoManager slot the next `new VideoManager()` takes (0 when the
\* model's pool is used up).
NextVM(s) ==
    IF \E v \in VMs : ~s.vm[v].constructed
    THEN CHOOSE v \in VMs :
           /\ ~s.vm[v].constructed
           /\ \A w \in VMs : w < v => s.vm[w].constructed
    ELSE 0

\* stopVideo(): the preview is paused, the tracks of its stream are stopped,
\* it is detached and reloaded; videoManager.stop() runs and the reference is
\* dropped; isVideoActive = false.
stopVideo(s) ==
    LET s1 == DetachPreview(StopTracks(s, s.preview.srcObject))
        s2 == IF s1.app.videoManager # 0
              THEN [VMStop(s1, s1.app.videoManager) EXCEPT
                       !.app.videoManager = 0]
              ELSE s1
    IN  [s2 EXCEPT !.app.isVideoActive = FALSE]

\* handleVideoToggle() up to its await (or to its end, when it stops).
handleVideoToggle(s) ==
    IF ~s.app.isVideoActive
    THEN LET v == IF s.app.videoManager = 0 THEN NextVM(s)
                  ELSE s.app.videoManager
             s1 == IF s.app.videoManager = 0
                   THEN [s EXCEPT !.vm[v] = NewVideoManager,
                                  !.app.videoManager = v]
                   ELSE s
         IN  VMStart(s1, v, ToggleArgs[1], ToggleArgs[2], "toggle")
    ELSE stopVideo(s)

\* handleVideoToggle() after `await videoManager.start(...)` resolved
\* (lines 474-480); r is the capturer that start constructed.
ToggleResumes(s, r) ==
    IF s.call[r].via = "toggle"
    THEN [s EXCEPT !.app.isVideoActive = TRUE]
    ELSE s

\* The catch of handleVideoToggle (lines 482-491).
ToggleCatches(s, r) ==
    IF s.call[r].via = "toggle"
    THEN stopVideo([s EXCEPT !.app.isVideoActive = FALSE,
                             !.app.videoManager = 0])
    ELSE s

\* The user clicks the camera button.
ClickCamera ==
    /\ Quiet
    /\ \/ app.isVideoActive
       \/ /\ NextRec(St) # NoRec
          /\ app.videoManager # 0 \/ NextVM(St) # 0
    /\ Run(Mark(handleVideoToggle(St), "toggle",
                IF app.isVideoActive THEN 0 ELSE NextRec(St),
                handleVideoToggle(St).app.videoManager, ""))

\* The user clicks the stop-video button.
ClickStopVideo ==
    /\ Quiet
    /\ Run(Mark(stopVideo(St), "stopVideo", 0, app.videoManager, ""))

\* The websocket disconnects: `if (videoManager) stopVideo()`.
Disconnects ==
    /\ Quiet
    /\ app.videoManager # 0
    /\ Run(Mark(stopVideo(St), "disconnect", 0, app.videoManager, ""))

\* The preview's play() promise resolves; the start the application awaits,
\* if it is this one, resumes handleVideoToggle.
AppPlayResolves ==
    \E r \in RecIds :
        /\ Quiet
        /\ rec[r].kind = "camera"
        /\ call[r].pc = "play"
        /\ Run(Mark(ToggleResumes(VRPlaying(St, r), r),
                    "resolved", r, call[r].vm, ""))

\* getUserMedia rejects; the rejection reaches the catch of the caller.
AppAcquireRejects ==
    \E r \in RecIds :
        /\ Acquiring(r, "camera")
        /\ Run(Rejected(ToggleCatches(VMStartRejected(St, r), r), r, "denied"))

\* The preview's play() promise rejects; the rejection reaches the catch of
\* the caller.
AppPlayRejects ==
    \E r \in RecIds :
        /\ Quiet
        /\ rec[r].kind = "camera"
        /\ call[r].pc \in {"play", "playAborted"}
        /\ Run(Rejected(ToggleCatches(VMStartRejected(St, r), r), r, "play"))

\* The camera page under every interleaving of clicks on the camera, stop and
\* flip buttons, disconnects and device events.
AppNext ==
    \/ ClickCamera
    \/ ClickStopVideo
    \/ ClickFlip
    \/ Disconnects
    \/ AcquireResolves(LifecycleResolutions)
    \/ AppAcquireRejects
    \/ AppPlayResolves
    \/ AppPlayRejects
    \/ TrackEnds
    \/ Settle

AppSpec == AppInit /\ [][AppNext]_vars

\* --------------------------------------------- resolution changes mid-session
\* The resolutions a device can switch to while it is captured (the camera is
\* rotated, the shared window is resized).
ChangedResolutions ==
    {[width |-> 352, height |-> 288], [width |-> 288, height |-> 352],
     [width |-> 1280, height |-> 720], [width |-> 1024, height |-> 768]}

\* The live track of a capturer's stream changes its resolution.
ResolutionChanges ==
    \E r \in RecIds, d \in ChangedResolutions :
        /\ Quiet
        /\ track[r] = "live"
        /\ d # device[r]
        /\ (d.width > 1000) = (rec[r].kind = "screen")
        /\ Run([St EXCEPT !.device[r] = d])

\* One session per capturer, with a device whose resolution changes.
ResizeNext ==
    \/ CallStart(PolicyArgs, {1})
    \/ CallStop
    \/ AcquireResolves(LifecycleResolutions)
    \/ PlayResolves
    \/ TimerFires(LifecycleScenes, MaxDecoding, MaxFrames)
    \/ DecodeCompletes(MaxDrawing, 0)
    \/ DrawCompletes
    \/ ScreenCallStart
    \/ ScreenCallStop
    \/ ScreenAcquireResolves
    \/ ScreenMetadataLoads
    \/ ScreenPlayResolves
    \/ ScreenTimerFires(LifecycleScenes)
    \/ ResolutionChanges
    \/ Settle

ResizeSpec == Init /\ [][ResizeNext]_vars

\* ------------------------------------------------------ detectMotion alone
\* The RGBA pixels the compared frames are made of.
MotionPixels == {<<0, 0, 0, 255>>, <<9, 3, 0, 255>>}

\* The data of an ImageData whose pixels are ps: four bytes per pixel.
ImageDataOf(ps) ==
    [i \in 1..(4 * Len(ps)) |-> ps[((i - 1) \div 4) + 1][((i - 1) % 4) + 1]]

\* The frames of n pixels.
MotionFrames(n) == {ImageDataOf(ps) : ps \in [1..n -> MotionPixels]}

\* Some pair of equal-length frames is about to be handed to detectMotion.
MotionInit ==
    /\ role = "camera"
    /\ Constructed
    /\ \E n \in 1..MaxPixels :
         \E f \in MotionFrames(n), g \in MotionFrames(n) :
            motion = [NoComparison EXCEPT !.prevFrame = f, !.currentFrame = g]

\* this.detectMotion(this.lastFrameData, imageData.data)
Compare ==
    /\ ~motion.scored
    /\ motion' = [motion EXCEPT
                    !.scored = TRUE,
                    !.score = detectMotion(motion.prevFrame,
                                           motion.currentFrame)]
    /\ UNCHANGED <<role, rec, call, track, preview, device, vm, decoding,
                   drawing, event, history, app>>

MotionNext == Compare

MotionSpec == MotionInit /\ [][MotionNext]_vars

\* ============================================================== properties
\* The states of a manager and of a capturer the properties speak of.
IdleIn(V) == ~V.isActive /\ V.videoRecorder = NoRec

MotionStateClearedIn(V) ==
    /\ V.lastFrameData = NoPixels
    /\ V.lastSignificantFrame = <<>>
    /\ V.frameCount = 0

Idle(v) == IdleIn(vm[v])
MotionStateCleared(v) == MotionStateClearedIn(vm[v])

HoldsLiveStream(r) ==
    rec[r].stream # NoStream /\ track[rec[r].stream] = "live"

Holding(r) ==
    rec[r].kind = "camera" /\ (HoldsLiveStream(r) \/ rec[r].captureInterval)

ByFlip(r) == call[r].via \in {"flipClick", "flipCamera"}

\* C1: for the camera role, in every reachable state at most one VideoRecorder
\* holds a live stream or an armed sampling timer.
C1_AtMostOneCapturer == Cardinality({r \in RecIds : Holding(r)}) <= 1

\* Two capturers sample live streams at once: the one of a start() that
\* succeeded and the one of a flipCamera() that succeeded after it.
C1_TwoCapturersAfterFlipCamera ==
    \E r, q \in RecIds :
        /\ r # q
        /\ call[r].via = "start" /\ call[r].pc = "resolved"
        /\ call[q].via = "flipCamera" /\ call[q].pc = "resolved"
        /\ HoldsLiveStream(r) /\ rec[r].captureInterval
        /\ HoldsLiveStream(q) /\ rec[q].captureInterval

C3_StartFailureStopsFully ==
    event.op = "rejected" /\ rec[event.r].kind = "camera" =>
        /\ track[event.r] # "live"
        /\ ~rec[event.r].captureInterval
        /\ Idle(call[event.r].vm)
        /\ MotionStateCleared(call[event.r].vm)

\* start() has just rejected because play() rejected, and the stream it
\* acquired is still live.
C3_RejectedWithLiveTrack ==
    /\ event.op = "rejected"
    /\ event.why = "play"
    /\ rec[event.r].kind = "camera"
    /\ HoldsLiveStream(event.r)

\* What validateFrame is there to guarantee of a payload.
WellFormed(p) == p.len > 0 /\ p.alpha /\ p.len >= MinFrameLength

\* C4: for the camera and the screen capturer, a tick whose payload is empty,
\* has a character outside the base64 alphabet or is shorter than 1024
\* characters does not invoke the frame callback: every frame handed to the
\* callback (and so every frame in decode) and every payload given to an
\* outbound sink is well-formed.
C4_InvalidNeverForwarded ==
    /\ event.called => WellFormed(event.data[1])
    /\ event.op = "sink" => WellFormed(event.data[1])
    /\ \A i \in 1..Len(decoding) : WellFormed(decoding[i].payload)

\* A tick has just encoded a payload one character short of the minimum and
\* returned without invoking the callback.
C4_ShortFrameDropped ==
    /\ event.op = "tick"
    /\ event.data[1].len = MinFrameLength - 1
    /\ ~event.called

\* C5: when the camera's track fires 'ended' while its session is active, the
\* task of the listener leaves the session fully stopped: track released,
\* timer cleared, preview detached, and the manager Idle with thumbnail and
\* motion state cleared.
C5_EndedStopsSession ==
    [][(/\ event'.op = "ended"
        /\ rec[event'.r].kind = "camera"
        /\ call[event'.r].pc = "resolved"
        /\ vm[call[event'.r].vm].isActive
        /\ vm[call[event'.r].vm].videoRecorder = event'.r)
       => (/\ track'[event'.r] # "live"
           /\ ~rec'[event'.r].captureInterval
           /\ preview'.srcObject # event'.r
           /\ IdleIn(vm'[call[event'.r].vm])
           /\ vm'[call[event'.r].vm].thumb = NoPixels
           /\ MotionStateClearedIn(vm'[call[event'.r].vm]))]_vars

\* The 'ended' listener has run and stopped the capturer, and the manager is
\* still active and still holds it.
C5_ActiveAfterEnded ==
    /\ event.op = "ended"
    /\ event.r \in event.stopped
    /\ rec[event.r].kind = "camera"
    /\ vm[call[event.r].vm].isActive
    /\ vm[call[event.r].vm].videoRecorder = event.r

\* C6: stop() is idempotent: from every reachable state, VideoManager.stop,
\* VideoRecorder.stop and ScreenRecorder.stop called twice in a row leave
\* exactly the state one call leaves.
C6_StopIdempotent ==
    /\ \A v \in VMs :
         vm[v].constructed => VMStop(VMStop(St, v), v) = VMStop(St, v)
    /\ \A r \in RecIds :
         rec[r].kind = "camera" => VRStop(VRStop(St, r), r) = VRStop(St, r)
    /\ \A r \in RecIds :
         rec[r].kind = "screen" => SRStop(SRStop(St, r), r) = SRStop(St, r)

\* stop() has just been called on a manager that held no capturer, after an
\* earlier stop released a stream.
C6_StoppedAgain ==
    /\ event.op = "stop"
    /\ event.v # 0
    /\ event.r = NoRec
    /\ vm[event.v].display = "none"
    /\ \E r \in RecIds : track[r] = "stopped"

\* C7: in front of a static scene (motion score zero), among any
\* FORCE_FRAME_INTERVAL candidates in a row that reach the motion gate of an
\* active camera session at least one is forwarded: the gate never drops
\* FORCE_FRAME_INTERVAL in a row.
C7_ForcedWithinInterval == history.drops < FORCE_FRAME_INTERVAL

\* The gate of an active session has dropped FORCE_FRAME_INTERVAL candidates
\* in a row, and the count of forwarded frames still stands at one.
C7_TenDroppedInARow ==
    /\ history.drops = FORCE_FRAME_INTERVAL
    /\ \E v \in VMs : vm[v].isActive /\ vm[v].frameCount = 1

\* C8: two successive sink invocations of an active camera session are at
\* least FRAME_INTERVAL ms apart (elapsed is the time since the manager last
\* forwarded a frame; frameCount >= 1 says it has forwarded one this session).
C8_SinkCallsSpaced ==
    [][(/\ event'.op = "sink"
        /\ rec[event'.r].kind = "camera"
        /\ vm[call[event'.r].vm].isActive
        /\ vm[call[event'.r].vm].frameCount >= 1)
       => vm[call[event'.r].vm].elapsed >= FRAME_INTERVAL]_vars

\* C9: when the restart of a flip (button handler or flipCamera()) rejects,
\* the manager is Idle, no camera track is live, no sampling timer is armed
\* and the motion state is cleared.
C9_FlipFailureEndsIdle ==
    (event.op = "rejected" /\ rec[event.r].kind = "camera" /\ ByFlip(event.r))
      => /\ Idle(call[event.r].vm)
         /\ MotionStateCleared(call[event.r].vm)
         /\ \A q \in RecIds : track[q] # "live" /\ ~rec[q].captureInterval

\* The acquisition of a flipCamera() has just been refused, and the capturer
\* of the session before it still samples its live stream.
C9_OldCapturerLiveAfterFailedFlip ==
    /\ event.op = "rejected"
    /\ event.why = "denied"
    /\ call[event.r].via = "flipCamera"
    /\ \E q \in RecIds :
         /\ q # event.r
         /\ HoldsLiveStream(q)
         /\ rec[q].captureInterval

\* C10: after start(c, cb) and a flip that succeeded, the capturer of the flip
\* samples at cadence c, its frames are forwarded to cb, and it acquired the
\* facing mode opposite to the one before the flip.
C10_FlipKeepsCadenceAndSink ==
    \A r \in RecIds :
        (/\ rec[r].kind = "camera"
         /\ ByFlip(r)
         /\ call[r].pc = "resolved"
         /\ history.flip[r].fps # NoCadence)
        => /\ rec[r].fps = history.flip[r].fps
           /\ call[r].facingMode = OtherFacing(history.flip[r].facingMode)
           /\ \A i \in 1..Len(decoding) :
                decoding[i].from = r =>
                    decoding[i].onFrame = history.flip[r].onFrame
           /\ (event.op = "sink" /\ event.r = r) =>
                    event.sink = history.flip[r].onFrame

\* A frame the capturer of a successful button flip sampled has just been
\* forwarded to the sink the start before the flip was given.
C10_FrameForwardedAfterFlip ==
    /\ event.op = "sink"
    /\ rec[event.r].kind = "camera"
    /\ call[event.r].via = "flipClick"
    /\ call[event.r].pc = "resolved"
    /\ event.sink # NoSink
    /\ event.sink = history.flip[event.r].onFrame

\* The i-th pending decode is of a frame the motion gate has to drop: a
\* previous frame exists, the score is below MOTION_THRESHOLD and frameCount
\* is not divisible by FORCE_FRAME_INTERVAL.
ToBeDropped(i) ==
    LET d == decoding[i]
        V == vm[d.vm]
    IN  /\ V.lastFrameData # NoPixels
        /\ BelowThreshold(detectMotion(Pixels(V.lastFrameData),
                                       Pixels(d.payload.px)))
        /\ V.frameCount % FORCE_FRAME_INTERVAL # 0

\* C11: when the decode of a frame the motion gate has to drop completes, the
\* sink is not invoked, no thumbnail refresh is begun, and the manager
\* (lastFrameData, lastSignificantFrame, lastFrameTime, frameCount, thumbnail)
\* is unchanged; a thumbnail refresh is begun only with a frame that passed
\* the gate (frameCount grows by one).
C11_DroppedFrameChangesNothing ==
    [][/\ \A i \in 1..Len(decoding) :
            (decoding' = RemoveAt(decoding, i) /\ ToBeDropped(i))
            => /\ event'.op # "sink"
               /\ drawing' = drawing
               /\ vm' = vm
       /\ Len(drawing') > Len(drawing)
            => \E v \in VMs : vm'[v].frameCount = vm[v].frameCount + 1]_vars

\* The gate of an active session has just dropped its first candidate after
\* a forwarded frame.
C11_FirstCandidateDropped ==
    /\ history.drops = 1
    /\ event.op = "none"
    /\ \E v \in VMs :
         vm[v].isActive /\ vm[v].frameCount = 1 /\ vm[v].elapsed > 0

\* C12: once a camera start has succeeded, the internal raster has the
\* resolution the device negotiated (the track's settings), and so have the
\* width and height passed with every frame the capturer emits, whatever was
\* requested.
C12_NegotiatedResolution ==
    /\ \A r \in RecIds :
         (rec[r].kind = "camera" /\ call[r].pc = "resolved")
         => rec[r].frameCanvas = history.settings[r]
    /\ (event.called /\ rec[event.r].kind = "camera")
         => /\ event.width = history.settings[event.r].width
            /\ event.height = history.settings[event.r].height
    /\ \A i \in 1..Len(decoding) :
         /\ decoding[i].originalWidth = history.settings[decoding[i].from].width
         /\ decoding[i].originalHeight
              = history.settings[decoding[i].from].height

\* A capturer that asked for 640 x 480 and negotiated another resolution has
\* just emitted a frame with the negotiated width and height.
C12_EmittedAtNegotiatedSize ==
    /\ event.called
    /\ rec[event.r].kind = "camera"
    /\ history.settings[event.r].width # RequestedWidth
    /\ event.width = history.settings[event.r].width
    /\ rec[event.r].frameCanvas.height = history.settings[event.r].height

\* C13: when a capturer's own start fails after the device was acquired, the
\* state in which the capturer surfaces the error (for VideoRecorder.start the
\* one its catch leaves when play() rejects, before any caller has reacted;
\* for ScreenRecorder.start the one in which its promise rejects) has the
\* acquired track stopped and no sampling timer armed.
C13_CapturerFailureReleasesDevice ==
    /\ \A r \in RecIds :
         (rec[r].kind = "camera" /\ call[r].pc \in {"play", "playAborted"})
         => /\ VRStartRejected(St, r).track[r] # "live"
            /\ ~VRStartRejected(St, r).rec[r].captureInterval
    /\ (event.op = "rejected" /\ rec[event.r].kind = "screen"
          /\ track[event.r] # "none")
         => /\ track[event.r] # "live"
            /\ ~rec[event.r].captureInterval

\* ScreenRecorder.start has just rejected after it had acquired the screen,
\* and its sampling timer is armed.
C13_ScreenRejectedWithTimerArmed ==
    /\ event.op = "rejected"
    /\ rec[event.r].kind = "screen"
    /\ track[event.r] # "none"
    /\ rec[event.r].captureInterval
    /\ rec[event.r].isRecording

\* A manager on which neither start nor a flip has run: no capturer was ever
\* constructed.
NeverStarted(v) ==
    /\ v \in VMs
    /\ vm[v].constructed
    /\ history.start[v] = NoArgs
    /\ \A r \in RecIds : rec[r].kind = "none"

\* The state with a capturer that was constructed and never started in slot r.
WithFresh(r, fresh) == [St EXCEPT !.rec[r] = fresh]

\* C14: stop() on a manager that was never started leaves it as constructed
\* (no capturer, isActive false, motion state empty, thumbnail blank, no
\* track, preview untouched), and stop() on a capturer that was constructed and
\* never started changes nothing at all: it stays not recording, with no timer
\* and no stream, and the preview element, which it was never given, keeps
\* whatever it shows.
C14_StopBeforeStartKeepsInitialState ==
    /\ (event.op = "stop" /\ NeverStarted(event.v))
         => /\ Idle(event.v)
            /\ MotionStateCleared(event.v)
            /\ vm[event.v].thumb = NoPixels
            /\ vm[event.v].fps = NoCadence /\ vm[event.v].onFrame = NoSink
            /\ event.stopped = {}
            /\ preview = [srcObject |-> NoStream, paused |-> TRUE]
            /\ \A r \in RecIds : track[r] = "none"
    /\ LET r == NextRec(St)
       IN  r # NoRec =>
             /\ \A a \in LifecycleArgs :
                  VRStop(WithFresh(r, NewVideoRecorder(a[1])), r)
                    = [WithFresh(r, NewVideoRecorder(a[1])) EXCEPT
                          !.event.stopped = @ \cup {r}]
             /\ SRStop(WithFresh(r, NewScreenRecorder), r)
                    = [WithFresh(r, NewScreenRecorder) EXCEPT
                          !.event.stopped = @ \cup {r}]

\* stop() has just run on a manager that was never started.
C14_StoppedBeforeAnyStart == event.op = "stop" /\ NeverStarted(event.v)

\* C15: a tick of a recording screen capturer that encodes a frame passing
\* validation invokes the callback given to start exactly once, with that
\* frame, in the same task: nothing is queued for a motion gate, and no
\* interval or decimation test stands between validation and the callback.
C15_ScreenFrameAlwaysForwarded ==
    /\ (event.op \in {"tick", "sink"} /\ rec[event.r].kind = "screen"
          /\ WellFormed(event.data[1]))
         => /\ event.calls = 1
            /\ event.op = "sink"
            /\ event.sink = call[event.r].onFrame
    /\ role = "screen" => decoding = <<>> /\ drawing = <<>>

\* A screen tick has just handed a validated frame to the callback.
C15_ScreenFrameForwarded ==
    /\ event.op = "sink"
    /\ rec[event.r].kind = "screen"
    /\ rec[event.r].isRecording
    /\ call[event.r].pc = "resolved"
    /\ WellFormed(event.data[1])
    /\ event.calls = 1

\* C16: when VideoManager.start runs on a manager that still references a
\* capturer, the task of that call, in which the fresh capturer requests the
\* device, leaves the old capturer stopped: no stream reference, track not
\* live, timer cleared.
C16_RestartStopsOldCapturer ==
    [][(event'.op = "start" /\ event'.v \in VMs
          /\ vm[event'.v].videoRecorder # NoRec)
       => /\ rec'[vm[event'.v].videoRecorder].stream = NoStream
          /\ track'[vm[event'.v].videoRecorder] # "live"
          /\ ~rec'[vm[event'.v].videoRecorder].captureInterval]_vars

\* start has just been called again on a manager whose session was running:
\* the fresh capturer has requested the camera while the capturer of the
\* earlier start, which the manager no longer references, still holds a live
\* track and an armed timer.
C16_OldCapturerLiveAtRestart ==
    /\ event.op = "start"
    /\ role = "camera"
    /\ call[event.r].pc = "acquire"
    /\ vm[event.v].videoRecorder = event.r
    /\ \E q \in RecIds :
         /\ q # event.r
         /\ call[q].via = "start" /\ call[q].vm = event.v
         /\ call[q].pc = "resolved"
         /\ HoldsLiveStream(q)
         /\ rec[q].captureInterval

\* C17: the task of a flip, by the button's click handler or by flipCamera(),
\* in which the facing mode is toggled and the new acquisition requested,
\* leaves the capturer that was active when the flip began stopped: no stream
\* reference, track not live, timer cleared.
C17_FlipStopsActiveCapturer ==
    [][\A v \in VMs :
         (/\ \/ event'.op = "flipClick"
             \/ event'.op = "flipCamera" /\ event'.v = v
          /\ vm[v].constructed
          /\ vm[v].videoRecorder # NoRec)
         => /\ rec'[vm[v].videoRecorder].stream = NoStream
            /\ track'[vm[v].videoRecorder] # "live"
            /\ ~rec'[vm[v].videoRecorder].captureInterval]_vars

\* flipCamera() has just toggled the facing mode and requested the other
\* camera while the capturer that was active still holds a live track and an
\* armed timer.
C17_ActiveCapturerLiveAtFlipCamera ==
    /\ event.op = "flipCamera"
    /\ call[event.r].pc = "acquire"
    /\ \E q \in RecIds :
         /\ q # event.r
         /\ call[q].vm = event.v
         /\ call[q].pc = "resolved"
         /\ call[event.r].facingMode = OtherFacing(call[q].facingMode)
         /\ HoldsLiveStream(q)
         /\ rec[q].captureInterval

\* C18: a capturer on which stop() ran while its start was pending (by a
\* caller's stop() or by the flip button's handler) holds no live track and no
\* armed timer once that start has settled, whether it resolved or rejected.
C18_CancelledStartStaysStopped ==
    \A r \in history.cancelled :
        call[r].pc \in {"resolved", "rejected"}
        => ~HoldsLiveStream(r) /\ ~rec[r].captureInterval

\* A start that a caller's stop() had cancelled while getUserMedia was
\* pending has just resolved: the capturer samples a live track, the manager
\* is active again and does not reference the capturer.
C18_StoppedSessionResurrected ==
    /\ event.op = "resolved"
    /\ event.r \in history.cancelled
    /\ call[event.r].via = "start"
    /\ HoldsLiveStream(event.r)
    /\ rec[event.r].captureInterval
    /\ vm[event.v].isActive
    /\ vm[event.v].videoRecorder = NoRec

\* C19: the preview element is given a new stream only when the stream it
\* showed, if any, has been stopped, and a task detaches the preview from a
\* stream only when it ran stop() on the capturer that stream belongs to.
C19_PreviewHasOneOwner ==
    [][/\ (preview'.srcObject # NoStream
             /\ preview'.srcObject # preview.srcObject
             /\ preview.srcObject # NoStream)
          => track[preview.srcObject] # "live"
       /\ (preview.srcObject # NoStream /\ preview'.srcObject = NoStream)
          => preview.srcObject \in event'.stopped]_vars

\* The 'ended' listener of one capturer has just run stop(), which paused and
\* detached the preview, while another capturer that attached its stream
\* later still samples its live track.
C19_PreviewDetachedByOtherCapturer ==
    /\ event.op = "ended"
    /\ event.stopped = {event.r}
    /\ preview.srcObject = NoStream /\ preview.paused
    /\ \E q \in RecIds :
         /\ q > event.r
         /\ call[q].pc = "resolved"
         /\ HoldsLiveStream(q)
         /\ rec[q].captureInterval

\* C20: the motion gate holds at most one camera frame at a time and lets
\* frames through in tick order: a tick's frame is admitted to the gate only
\* when no earlier frame's decode is pending, and the decode that completes is
\* the one of the earliest frame admitted.
C20_OneFrameInGateInTickOrder ==
    [][/\ Len(decoding') > Len(decoding) => decoding = <<>>
       /\ Len(decoding') < Len(decoding) => decoding' = Tail(decoding)]_vars

\* A tick has just handed a second frame to processFrame while the decode of
\* the frame of an earlier tick of the same capturer is still pending.
C20_TwoFramesInGate ==
    /\ event.op = "tick"
    /\ event.called
    /\ Len(decoding) = 2
    /\ decoding[1].from = event.r
    /\ decoding[2].from = event.r
    /\ decoding[2].payload = event.data[1]

\* C21: a capturer whose track has ended has no armed sampling timer: whenever
\* the track ends after the device was acquired the capturer's stop path runs,
\* also when the track ended while start was still waiting for the preview to
\* play.
C21_NoTimerOnEndedTrack ==
    \A r \in RecIds : track[r] = "ended" => ~rec[r].captureInterval

\* The start of a capturer whose track ended while play() was pending has just
\* resolved: the capturer is recording with its timer armed on the ended track.
C21_TimerArmedOnEndedTrack ==
    /\ event.op = "resolved"
    /\ track[event.r] = "ended"
    /\ rec[event.r].stream = event.r
    /\ rec[event.r].isRecording
    /\ rec[event.r].captureInterval

\* C22: while the capturer a manager references has a start pending (from the
\* moment VideoManager.start created it until it has armed its sampling loop),
\* the manager's isActive is false.
C22_InactiveWhileStarting ==
    \A r \in RecIds :
        (/\ rec[r].kind = "camera"
         /\ PendingStart(r)
         /\ vm[call[r].vm].videoRecorder = r)
        => ~vm[call[r].vm].isActive

\* start has just been called on a manager whose session is active: the new
\* capturer is requesting the camera and isActive is true.
C22_ActiveWhileRestarting ==
    /\ event.op = "start"
    /\ role = "camera"
    /\ call[event.r].pc = "acquire"
    /\ ~rec[event.r].captureInterval
    /\ vm[event.v].videoRecorder = event.r
    /\ vm[event.v].isActive

\* The i-th pending decode is of a frame the gate policy admits: there is no
\* previous accepted frame, or the motion score against it is at least
\* MOTION_THRESHOLD, or frameCount is divisible by FORCE_FRAME_INTERVAL.
PolicyAdmits(i) ==
    LET d == decoding[i]
        V == vm[d.vm]
    IN  \/ V.lastFrameData = NoPixels
        \/ ~BelowThreshold(detectMotion(Pixels(V.lastFrameData),
                                        Pixels(d.payload.px)))
        \/ V.frameCount % FORCE_FRAME_INTERVAL = 0

\* C23: when the decode of a candidate completes, the frame is handed to the
\* sink if and only if the gate policy admits it (no previous accepted frame,
\* or score >= MOTION_THRESHOLD, or frameCount % FORCE_FRAME_INTERVAL = 0).
C23_GatePolicy ==
    [][\A i \in 1..Len(decoding) :
          (decoding' = RemoveAt(decoding, i) /\ decoding[i].onFrame # NoSink)
          => ((/\ event'.op = "sink"
               /\ event'.sink = decoding[i].onFrame
               /\ event'.data = <<decoding[i].payload>>)
              <=> PolicyAdmits(i))]_vars

\* The FORCE_FRAME_INTERVAL-th forwarded frame, which the thumbnail shows, has
\* been followed by a frame of the same scene, and the gate has just forwarded
\* it to the sink: frameCount was divisible by FORCE_FRAME_INTERVAL.
C23_ForcedFrameForwarded ==
    /\ event.op = "sink"
    /\ \E v \in VMs :
         /\ vm[v].frameCount = FORCE_FRAME_INTERVAL + 1
         /\ vm[v].lastFrameData = event.data[1].px
         /\ vm[v].thumb = event.data[1].px
         /\ drawing = <<[vm |-> v, px |-> event.data[1].px]>>

\* C24: when the decode of the first candidate of a capturer completes (the
\* first frame that reaches the gate after a successful start, be it an
\* initial start, a start after stop or the restart of a flip), the frame is
\* handed to the sink and a thumbnail refresh with it is begun, whatever its
\* motion score.  (Stated for a capturer that is the only one sampling and the
\* only one with a frame in the gate.)
C24_FirstFrameAlwaysForwarded ==
    [][\A i \in 1..Len(decoding) :
          (/\ decoding' = RemoveAt(decoding, i)
           /\ history.first[decoding[i].from] = "none"
           /\ decoding[i].onFrame # NoSink
           /\ \A q \in RecIds \ {decoding[i].from} : ~rec[q].captureInterval
           /\ \A j \in 1..Len(decoding) : decoding[j].from = decoding[i].from)
          => /\ event'.op = "sink"
             /\ event'.data = <<decoding[i].payload>>
             /\ drawing' = Append(drawing, [vm |-> decoding[i].vm,
                                            px |-> decoding[i].payload.px])]_vars

\* The restart of a button flip succeeded and the gate dropped the first
\* candidate of the new capturer: the manager still holds the previous
\* camera's last frame.
C24_FirstFrameAfterFlipDropped ==
    \E r \in RecIds :
        /\ call[r].via = "flipClick"
        /\ call[r].pc = "resolved"
        /\ rec[r].captureInterval
        /\ history.first[r] = "dropped"
        /\ vm[call[r].vm].isActive
        /\ vm[call[r].vm].videoRecorder = r
        /\ vm[call[r].vm].frameCount = 1

\* Every start made on manager v was given a sink.
AlwaysGivenSink(v) ==
    \A r \in RecIds :
        (rec[r].kind = "camera" /\ call[r].vm = v) => call[r].onFrame # NoSink

C26_EmitsOnlyWhileArmedAndLive ==
    event.called
      => /\ rec[event.r].isRecording
         /\ rec[event.r].captureInterval
         /\ HoldsLiveStream(event.r)

\* A tick of a recording capturer has just invoked the frame callback with a
\* frame drawn from the preview although the capturer's track has ended.
C26_EmittedFromEndedTrack ==
    /\ event.called
    /\ WellFormed(event.data[1])
    /\ rec[event.r].isRecording
    /\ rec[event.r].captureInterval
    /\ rec[event.r].stream = event.r
    /\ track[event.r] = "ended"

\* C27: when a cleanup step inside a capturer's stop() has thrown, the
\* capturer's stream reference is null and its timer cleared, and for the
\* camera the manager's videoRecorder is null and isActive false.
C27_StopCleansUpDespiteThrow ==
    event.op = "stopFailed"
      => /\ rec[event.r].stream = NoStream
         /\ ~rec[event.r].captureInterval
         /\ rec[event.r].kind = "camera"
              => /\ vm[event.v].videoRecorder = NoRec
                 /\ ~vm[event.v].isActive

\* track.stop() has just thrown inside the stop() of an active camera
\* session: the capturer still references its stream, whose track is live,
\* and the manager still references the capturer and is active.
C27_StreamKeptAfterFailedStop ==
    /\ event.op = "stopFailed"
    /\ event.why = "track"
    /\ rec[event.r].kind = "camera"
    /\ HoldsLiveStream(event.r)
    /\ ~rec[event.r].captureInterval
    /\ vm[event.v].videoRecorder = event.r
    /\ vm[event.v].isActive

\* C28: a tick in which drawImage, toDataURL or the frame callback throws is
\* contained: the task ends in the catch of the timer callback, no frame
\* reaches the motion gate or a sink, and every capturer, track, the preview
\* and every manager's fields other than the clock are as before, so the
\* capturer is still recording with its timer armed.
C28_TickFailureContained ==
    [][event'.op = "tickCaught"
       => /\ \A r \in RecIds : [rec'[r] EXCEPT !.frameCanvas = NewCanvas]
                                = [rec[r] EXCEPT !.frameCanvas = NewCanvas]
          /\ track' = track
          /\ preview' = preview
          /\ call' = call
          /\ decoding' = decoding
          /\ drawing' = drawing
          /\ event'.sink = NoSink
          /\ \A v \in VMs : [vm'[v] EXCEPT !.elapsed = 0]
                              = [vm[v] EXCEPT !.elapsed = 0]
          /\ rec'[event'.r].isRecording
          /\ rec'[event'.r].captureInterval]_vars

\* The frame callback of a recording capturer has just thrown with a valid
\* frame, and the capturer is still recording with its timer armed.
C28_CallbackThrewInTick ==
    /\ event.op = "tickCaught"
    /\ event.why = "callback"
    /\ event.called
    /\ WellFormed(event.data[1])
    /\ rec[event.r].isRecording
    /\ rec[event.r].captureInterval
    /\ decoding = <<>>

\* C29: the task in which the preview's play() rejects during a start ends
\* with that start rejected, and leaves the capturer not recording and without
\* an armed timer, for the camera capturer and the screen capturer alike.
C29_PlayRejectionFailsStart ==
    event.why = "play"
      => /\ event.op = "rejected"
         /\ call[event.r].pc = "rejected"
         /\ ~rec[event.r].isRecording
         /\ ~rec[event.r].captureInterval

\* The screen preview's play() has just rejected and ScreenRecorder.start
\* resolved all the same: the capturer is recording a live stream with its
\* timer armed.
C29_ScreenStartedAfterPlayRejected ==
    /\ event.why = "play"
    /\ rec[event.r].kind = "screen"
    /\ event.op = "resolved"
    /\ call[event.r].pc = "resolved"
    /\ rec[event.r].isRecording
    /\ rec[event.r].captureInterval
    /\ HoldsLiveStream(event.r)

\* C30: when device acquisition is rejected, the start rejects and the
\* session does not start: the task of the rejection leaves the manager
\* without a capturer and not active, and a capturer whose acquisition was
\* rejected never holds a stream, an armed timer or isRecording.
C30_DeniedNeverStarts ==
    /\ event.why = "denied"
         => /\ event.op = "rejected"
            /\ call[event.r].pc = "rejected"
            /\ rec[event.r].kind = "camera"
                 => /\ vm[event.v].videoRecorder = NoRec
                    /\ ~vm[event.v].isActive
    /\ \A r \in RecIds :
         (call[r].pc = "rejected" /\ track[r] = "none")
         => /\ rec[r].stream = NoStream
            /\ ~rec[r].captureInterval
            /\ ~rec[r].isRecording

\* getUserMedia has just rejected the request of a start a caller made, and
\* the start rejected.
C30_CameraStartDenied ==
    /\ event.why = "denied"
    /\ event.op = "rejected"
    /\ rec[event.r].kind = "camera"
    /\ call[event.r].via = "start"
    /\ track[event.r] = "none"

\* C31: a capturer whose acquisition returned a stream without tracks has
\* its start rejected by the task in which the acquisition resolved, and is
\* then, and ever after, not recording and without an armed timer.
C31_EmptyStreamFailsStart ==
    \A r \in RecIds :
        track[r] = "empty"
        => /\ call[r].pc = "rejected"
           /\ ~rec[r].isRecording
           /\ ~rec[r].captureInterval

\* getDisplayMedia resolved with a stream without tracks and
\* ScreenRecorder.start, which attached it to the preview, is still waiting
\* for onloadedmetadata.
C31_ScreenWaitsOnEmptyStream ==
    \E r \in RecIds :
        /\ rec[r].kind = "screen"
        /\ track[r] = "empty"
        /\ rec[r].stream = r
        /\ preview.srcObject = r
        /\ call[r].pc = "metadata"
        /\ Quiet

\* The task that has just run began a start on manager v: it constructed a
\* capturer for it.
BeginsStart(v) ==
    \E q \in RecIds :
        rec[q].kind = "none" /\ rec'[q].kind = "camera" /\ call'[q].vm = v

\* C32: the two transitions the lifecycle Idle -> Starting -> Active ->
\* Stopping -> Idle (with Active -> Starting by a flip) excludes by name: a
\* flip on a manager that is Idle begins no start, and no start is begun on a
\* manager one of whose starts is still pending.
C32_LifecycleTransitions ==
    [][\A v \in VMs :
          /\ (event'.op \in {"flipClick", "flipCamera"} /\ vm[v].constructed
                /\ Idle(v))
             => ~BeginsStart(v)
          /\ (\E r \in RecIds :
                 rec[r].kind = "camera" /\ call[r].vm = v /\ PendingStart(r))
             => ~BeginsStart(v)]_vars

\* The flip button has just been clicked on a manager that was never started:
\* the manager references a new capturer, which is requesting the camera with
\* no cadence and no sink.
C32_FlipWhileIdleStarts ==
    /\ event.op = "flipClick"
    /\ \E v \in VMs :
         /\ history.start[v] = NoArgs
         /\ vm[v].videoRecorder = event.r
         /\ call[event.r].pc = "acquire"
         /\ call[event.r].vm = v
         /\ call[event.r].onFrame = NoSink
         /\ \A q \in RecIds \ {event.r} : rec[q].kind = "none"

\* The start of capturer r has settled.
SettledStart(r) == call[r].pc \in {"resolved", "rejected"}

\* C33: a start whose device acquisition has settled (it is waiting for the
\* preview: for loadedmetadata or for play()) eventually resolves or rejects,
\* whatever is called and whatever ends meanwhile.
C33_StartEventuallySettles ==
    \A r \in RecIds :
        (call[r].pc \in {"metadata", "play", "playAborted"})
          ~> SettledStart(r)

\* stop() was called on a screen capturer while its start was waiting for
\* onloadedmetadata: the preview no longer shows its stream, so the event its
\* start waits for cannot fire, and no task is running.
C33_ScreenStartStuckAfterStop ==
    \E r \in RecIds :
        /\ rec[r].kind = "screen"
        /\ call[r].pc = "metadata"
        /\ rec[r].stream = NoStream
        /\ track[r] = "stopped"
        /\ preview.srcObject = NoStream
        /\ Quiet

\* Everything a tick could touch is as the tick found it; of a manager, all
\* but the clock reading, which moves with time and not with the tick.
UntouchedByTick ==
    /\ rec' = rec
    /\ call' = call
    /\ track' = track
    /\ preview' = preview
    /\ device' = device
    /\ decoding' = decoding
    /\ drawing' = drawing
    /\ history' = history
    /\ \A v \in VMs : [vm'[v] EXCEPT !.elapsed = 0] = [vm[v] EXCEPT !.elapsed = 0]

SampledPixels(frame) ==
    {k \in 0..((Len(frame) \div 4) - 1) : k % skipPixels = 0}

\* |dR| + |dG| + |dB| of pixel k (0-based).
PixelDiff(f, g, k) ==
    Abs(f[4 * k + 1] - g[4 * k + 1]) + Abs(f[4 * k + 2] - g[4 * k + 2])
      + Abs(f[4 * k + 3] - g[4 * k + 3])

RECURSIVE SumPixelDiff(_, _, _)
SumPixelDiff(f, g, ks) ==
    IF ks = {} THEN 0
    ELSE LET k == CHOOSE x \in ks : TRUE
         IN  PixelDiff(f, g, k) + SumPixelDiff(f, g, ks \ {k})

\* C35: for every pair of equal-length frames detectMotion returns the sum,
\* over the sampled pixels, of the mean absolute R/G/B difference, divided by
\* the number of pixels sampled (score = (sum / 3) / sampled, compared as
\* fractions), for even and odd pixel counts; identical frames score 0.
C35_MotionScoreIsSampledMean ==
    motion.scored
    => LET f == motion.prevFrame
           g == motion.currentFrame
           sampled == Cardinality(SampledPixels(f))
       IN  /\ motion.score.num * 3 * sampled
                = SumPixelDiff(f, g, SampledPixels(f)) * motion.score.den
           /\ (f = g => motion.score.num = 0)

\* detectMotion has scored two differing frames of three pixels, of which the
\* loop samples two.
C35_OddFrameScored ==
    /\ motion.scored
    /\ Len(motion.prevFrame) = 12
    /\ Cardinality(SampledPixels(motion.prevFrame)) = 2
    /\ motion.score.num > 0

\* C36: whenever a tick hands a frame to the frame callback, the canvas the
\* frame was drawn on has the resolution the capturer's device has at that
\* moment, for camera and screen capturers, also after the resolution changed
\* during the session.
C36_RasterFollowsDevice ==
    (event.called /\ event.r \in RecIds /\ preview.srcObject = event.r)
    => rec[event.r].frameCanvas = device[event.r]

\* A camera capturer has just handed on a frame drawn on a canvas that still
\* has the resolution negotiated at start, after the device changed it.
C36_CameraRasterStale ==
    /\ event.called
    /\ event.r \in RecIds
    /\ rec[event.r].kind = "camera"
    /\ preview.srcObject = event.r
    /\ device[event.r] # history.settings[event.r]
    /\ rec[event.r].frameCanvas = history.settings[event.r]

\* C37: while a manager is stopped (no capturer, not active: from the return
\* of stop() until the next start) no frame of its capturers reaches a sink,
\* and lastFrameData, lastSignificantFrame, frameCount and the thumbnail stay
\* cleared, also when a decode begun before the stop completes after it.
C37_NothingAfterStop ==
    \A v \in VMs :
        (vm[v].constructed /\ Idle(v))
        => /\ MotionStateCleared(v)
           /\ vm[v].thumb = NoPixels
           /\ ~(event.op = "sink" /\ event.r \in RecIds
                  /\ call[event.r].vm = v)

\* The decode of a frame admitted before stop() has just completed on a
\* stopped manager: the frame was handed to the sink and counted.
C37_StaleDecodeDelivered ==
    /\ event.op = "sink"
    /\ event.r \in RecIds
    /\ \E v \in VMs :
        /\ call[event.r].vm = v
        /\ Idle(v)
        /\ rec[event.r].stream = NoStream
        /\ ~rec[event.r].captureInterval
        /\ vm[v].frameCount = 1
        /\ vm[v].lastSignificantFrame = event.data

\* C38: in every state of the camera controller, isActive implies that
\* videoRecorder is set and that this capturer is recording, with its timer
\* armed and a live stream.
C38_ActiveHasLiveCapturer ==
    \A v \in VMs :
        vm[v].isActive
        => /\ vm[v].videoRecorder \in RecIds
           /\ rec[vm[v].videoRecorder].isRecording
           /\ rec[vm[v].videoRecorder].captureInterval
           /\ HoldsLiveStream(vm[v].videoRecorder)

\* The camera track has ended and the 'ended' listener has stopped the
\* capturer; the manager still refers to it and is still active.
C38_ActiveAfterTrackEnded ==
    \E v \in VMs :
        /\ vm[v].isActive
        /\ vm[v].videoRecorder \in RecIds
        /\ track[vm[v].videoRecorder] = "ended"
        /\ ~rec[vm[v].videoRecorder].isRecording
        /\ ~rec[vm[v].videoRecorder].captureInterval
        /\ rec[vm[v].videoRecorder].stream = NoStream

\* The capturers the step constructs.
Fresh == {q \in RecIds : rec[q].kind = "none" /\ rec'[q].kind = "camera"}

\* C39: a VideoManager the application has dropped (it was constructed and is
\* not the application's videoManager) never starts a capturer again, and a
\* click on the flip button starts at most one capturer, that of the
\* application's current VideoManager.
C39_DiscardedManagerStaysDead ==
    [][/\ \A q \in Fresh :
             vm[call'[q].vm].constructed => app.videoManager = call'[q].vm
       /\ event'.op = "flipClick"
          => /\ Cardinality(Fresh) <= 1
             /\ \A q \in Fresh : call'[q].vm = app'.videoManager]_vars

\* The flip button was clicked after stopVideo() had dropped the manager: the
\* dropped manager has constructed a capturer that is acquiring the camera.
C39_DiscardedManagerAcquires ==
    /\ event.op = "flipClick"
    /\ app.videoManager = 0
    /\ ~app.isVideoActive
    /\ \E v \in VMs, r \in RecIds :
        /\ vm[v].constructed
        /\ vm[v].videoRecorder = r
        /\ call[r].vm = v
        /\ call[r].via = "flipClick"
        /\ call[r].pc = "acquire"

\* C40: whenever no camera start is pending, isVideoActive is true exactly
\* when videoManager is set and that manager's session is active.
C40_AppFlagMatchesSession ==
    (\A r \in RecIds : ~(rec[r].kind = "camera" /\ PendingStart(r)))
    => (app.isVideoActive
          <=> (app.videoManager # 0 /\ vm[app.videoManager].isActive))

\* stopVideo() ran while the start handleVideoToggle awaited was pending, and
\* that start has now resolved: isVideoActive is true with videoManager null.
C40_ActiveWithoutManager ==
    /\ app.isVideoActive
    /\ app.videoManager = 0
    /\ event.op = "resolved"
    /\ \A r \in RecIds : ~(rec[r].kind = "camera" /\ PendingStart(r))

====
